---- MODULE Spec2Model ----
(***************************************************************************)
(* KPIChatbotEngine: connection store, SQL safety gate, SQL generation and *)
(* query execution, modelled from the Python sources.                      *)
(*                                                                         *)
(* The repository holds four copies of the same flow.  Definitions carry a *)
(* prefix naming the copy they model:                                      *)
(*   BS_  src/backend/services/*.py   (in-memory config, isActive flags)   *)
(*   SV_  src/services/*.py + src/main.py (file per call, pointer only)    *)
(*   BM_  src/backend/main.py         (monolith, no dedup)                 *)
(*   BD_  src/backend/database.py + src/backend/gemini.py                  *)
(* A Python dict is modelled as a sequence of [key, val] entries with      *)
(* unique keys, in insertion order (dicts iterate in insertion order).     *)
(* Timestamps (lastConnected, created_at, extractedAt) are left out: no    *)
(* operation reads them.                                                   *)
(***************************************************************************)
EXTENDS Naturals, Sequences, FiniteSets, TLC

VARIABLES
    impl,              \* which copy of the flow is deployed
    config,            \* BS_: DatabaseConfigService.config (in memory)
    user_connections,  \* BD_: DatabaseManager.user_connections (in memory)
    file,              \* database.json: <<>> when absent, <<document>> otherwise
    sessions,          \* BM_: db_manager.sessions; SV_: sessions (src/main.py)
    now,               \* wall clock: the timestamp connect_database derives ids from
    inflight,          \* BS_: add_connection coroutines suspended at an await
    calls,             \* number of store calls issued while requests interleave
    resurrected,       \* an add_connection wrote the record of a removed connection
    sql,               \* the SQL text in hand: caller-supplied or generated
    sanitized,         \* the gate that ran last and what it returned
    generated,         \* the last generate_sql_from_query call: its inputs
    executed,          \* the text the last execute_query handed to cursor.execute
    open_conns,        \* database connections opened and not closed
    response,          \* the last HTTP response
    rows,              \* the rows the cursor fetched for the last statement
    results            \* what execute_query made of them: table, columns, chart

vars == <<impl, config, user_connections, file, sessions, now,
          inflight, calls, resurrected,
          sql, sanitized, generated, executed, open_conns, response,
          rows, results>>

\* what the operations of each copy leave alone
storeVars == <<impl, config, user_connections, file, sessions, now>>
concVars == <<inflight, calls, resurrected>>
reqVars == <<sql, sanitized, generated, executed, open_conns, response>>
resVars == <<rows, results>>
BS_Frame == <<impl, user_connections, sessions, now, concVars, reqVars, resVars>>
BD_Frame == <<impl, config, sessions, now, concVars, reqVars, resVars>>
BM_Frame == <<impl, config, user_connections, concVars, reqVars, resVars>>

(***************************************************************************)
(* Bounds and input domains                                                *)
(***************************************************************************)
MaxId == 2                 \* proposed connection ids are timestamps 1..MaxId
MaxInFlight == 2           \* requests being served at the same time
MaxCalls == 3              \* store calls issued in one interleaved run
MaxTokens == 3             \* pieces in a text handed to a gate
MaxRows == 11               \* rows in one result set
MaxOpen == 2               \* connections left open before the run is cut

Users == {"admin@bank", "admin@ithr"}
ConnIds == 1..MaxId
None == 0                  \* Python None where an id is expected
NoSchema == "None"         \* Python None where a schema is expected
\* what extract_schema returns for a database: each database has its own schema
SchemaOf(p) == IF p.host = "h1" THEN "s1" ELSE "s2"
Raises == "raises"         \* extract_schema raising instead of returning

\* credentials sent by the caller: two dedup keys
Params ==
    { [host |-> "h1", port |-> 5432, database |-> "d", username |-> "a", password |-> "p1"],
      [host |-> "h2", port |-> 5432, database |-> "d", username |-> "a", password |-> "p2"] }

\* what the database does to one add_connection call: the connection test fails,
\* or it succeeds and extract_schema raises or returns a schema
Outcomes(p) ==
    { [test_ok |-> FALSE, extract |-> Raises],
      [test_ok |-> TRUE, extract |-> Raises],
      [test_ok |-> TRUE, extract |-> SchemaOf(p)] }

Idle == [pc |-> "idle"]

DedupKey(c) == <<c.host, c.port, c.database, c.username>>

(***************************************************************************)
(* Python dict as an insertion-ordered sequence of entries                 *)
(***************************************************************************)
DictKeys(d) == [i \in 1..Len(d) |-> d[i].key]
DictKeySet(d) == {d[i].key : i \in 1..Len(d)}
DictHas(d, k) == \E i \in 1..Len(d) : d[i].key = k
DictIndex(d, k) == CHOOSE i \in 1..Len(d) : d[i].key = k
DictGet(d, k) == d[DictIndex(d, k)].val
\* d[k] = v: an existing key keeps its position, a new key goes last
DictSet(d, k, v) ==
    IF DictHas(d, k)
    THEN [d EXCEPT ![DictIndex(d, k)] = [key |-> k, val |-> v]]
    ELSE Append(d, [key |-> k, val |-> v])
\* d.pop(k, None)
DictPop(d, k) ==
    IF DictHas(d, k)
    THEN LET i == DictIndex(d, k)
         IN SubSeq(d, 1, i - 1) \o SubSeq(d, i + 1, Len(d))
    ELSE d

(***************************************************************************)
(* SQL text.  A Python str is a sequence of one-character strings, so that *)
(* strip, upper, replace, startswith, "in" and the regular expressions of  *)
(* the gates are computed character by character.  NoneText stands for     *)
(* Python's None where a str is expected.                                  *)
(***************************************************************************)
NoneText == <<"None">>
Backquote == "backquote"        \* the backquote character of a code fence
Whitespace == {" ", "\n", "\t", "\r"}
LowerAlpha == <<"a","b","c","d","e","f","g","h","i","j","k","l","m","n","o","p","q","r","s","t","u","v","w","x","y","z">>
UpperAlpha == <<"A","B","C","D","E","F","G","H","I","J","K","L","M","N","O","P","Q","R","S","T","U","V","W","X","Y","Z">>

upper(s) ==
    [i \in 1..Len(s) |->
        IF \E k \in 1..Len(LowerAlpha) : LowerAlpha[k] = s[i]
        THEN UpperAlpha[CHOOSE k \in 1..Len(LowerAlpha) : LowerAlpha[k] = s[i]]
        ELSE s[i]]

lower(s) ==
    [i \in 1..Len(s) |->
        IF \E k \in 1..Len(UpperAlpha) : UpperAlpha[k] = s[i]
        THEN LowerAlpha[CHOOSE k \in 1..Len(UpperAlpha) : UpperAlpha[k] = s[i]]
        ELSE s[i]]

RECURSIVE lstrip(_)
lstrip(s) == IF s # <<>> /\ Head(s) \in Whitespace THEN lstrip(Tail(s)) ELSE s

RECURSIVE rstrip(_)
rstrip(s) ==
    IF s # <<>> /\ s[Len(s)] \in Whitespace THEN rstrip(SubSeq(s, 1, Len(s) - 1)) ELSE s

strip(s) == rstrip(lstrip(s))

startswith(s, prefix) ==
    Len(s) >= Len(prefix) /\ SubSeq(s, 1, Len(prefix)) = prefix

endswith(s, suffix) ==
    Len(s) >= Len(suffix) /\ SubSeq(s, Len(s) - Len(suffix) + 1, Len(s)) = suffix

\* Python's "sub in s"
contains(s, sub) ==
    \E i \in 1..(Len(s) + 1) :
        i + Len(sub) - 1 <= Len(s) /\ SubSeq(s, i, i + Len(sub) - 1) = sub

\* s.replace(old, '') and re.sub(old + r'\s*', '', s): leftmost occurrences,
\* not overlapping; ws tells whether the whitespace after a match goes too
RECURSIVE remove(_, _, _)
remove(s, old, ws) ==
    IF s = <<>> THEN <<>>
    ELSE IF startswith(s, old)
         THEN LET rest == SubSeq(s, Len(old) + 1, Len(s))
              IN remove(IF ws THEN lstrip(rest) ELSE rest, old, ws)
         ELSE <<Head(s)>> \o remove(Tail(s), old, ws)

\* re.sub(r"\s+", " ", s)
RECURSIVE collapse(_)
collapse(s) ==
    IF s = <<>> THEN <<>>
    ELSE IF Head(s) \in Whitespace THEN <<" ">> \o collapse(lstrip(s))
         ELSE <<Head(s)>> \o collapse(Tail(s))

(***************************************************************************)
(* BD_: DatabaseManager.sanitize_sql of backend/database.py                *)
(***************************************************************************)
BD_dangerous_keywords ==
    << <<"D","R","O","P">>, <<"D","E","L","E","T","E">>, <<"I","N","S","E","R","T">>, <<"U","P","D","A","T","E">>, <<"A","L","T","E","R">>, <<"C","R","E","A","T","E">>,
       <<"T","R","U","N","C","A","T","E">>, <<"E","X","E","C">>, <<"E","X","E","C","U","T","E">>, <<"M","E","R","G","E">>, <<"C","A","L","L">> >>

BD_sanitize_sql(sql_query) ==
    LET stripped == strip(remove(remove(sql_query, <<Backquote,Backquote,Backquote,"s","q","l">>, FALSE), <<Backquote,Backquote,Backquote>>, FALSE))
        query_upper == strip(upper(stripped))
    IN IF ~startswith(query_upper, <<"S","E","L","E","C","T">>) THEN NoneText
       ELSE IF \E k \in 1..Len(BD_dangerous_keywords) :
                   contains(query_upper, BD_dangerous_keywords[k])
            THEN NoneText
            ELSE stripped

(***************************************************************************)
(* SV_: GeminiService._clean_sql_response and _is_safe_sql of              *)
(* services/gemini_service.py                                              *)
(***************************************************************************)
SV_clean_sql_response(sql_response) ==
    LET stripped == strip(remove(remove(sql_response, <<Backquote,Backquote,Backquote,"s","q","l">>, TRUE), <<Backquote,Backquote,Backquote>>, TRUE))
    IN IF endswith(stripped, <<";">>) THEN stripped ELSE stripped \o <<";">>

SV_dangerous_keywords ==
    << <<"I","N","S","E","R","T">>, <<"U","P","D","A","T","E">>, <<"D","E","L","E","T","E">>, <<"D","R","O","P">>, <<"C","R","E","A","T","E">>, <<"A","L","T","E","R">>,
       <<"T","R","U","N","C","A","T","E">>, <<"E","X","E","C">>, <<"E","X","E","C","U","T","E">>, <<"G","R","A","N","T">>, <<"R","E","V","O","K","E">> >>

SV_is_safe_sql(text) ==
    LET sql_upper == strip(upper(text))
    IN IF \E k \in 1..Len(SV_dangerous_keywords) :
              contains(sql_upper, SV_dangerous_keywords[k])
       THEN FALSE
       ELSE startswith(sql_upper, <<"S","E","L","E","C","T">>)

(***************************************************************************)
(* BS_: the gate at the head of QueryExecutor.execute_query of             *)
(* backend/services/query_executor.py; NoneText stands for the ValueError  *)
(***************************************************************************)
BS_strip_fences(s) ==
    LET after3 == SubSeq(s, 4, Len(s))
        head == lstrip(IF startswith(lower(after3), <<"s","q","l">>)
                       THEN SubSeq(after3, 4, Len(after3)) ELSE after3)
    IN IF endswith(head, <<Backquote,Backquote,Backquote>>)
       THEN rstrip(SubSeq(head, 1, Len(head) - 3))
       ELSE head

BS_sanitize(sql_query) ==
    LET stripped == strip(sql_query)
        unfenced == IF startswith(stripped, <<Backquote,Backquote,Backquote>>) THEN BS_strip_fences(stripped)
                    ELSE stripped
        sanitized_text == collapse(unfenced)
    IN IF startswith(lower(sanitized_text), <<"s","e","l","e","c","t">>) THEN sanitized_text
       ELSE NoneText

(***************************************************************************)
(* BS_: src/backend/services/database_config.py                            *)
(***************************************************************************)
BS_EmptyConfig == [users |-> <<>>]

BS_HasUser(cfg, u) == DictHas(cfg.users, u)
BS_User(cfg, u) == DictGet(cfg.users, u)
BS_Connections(cfg, u) ==
    IF BS_HasUser(cfg, u) THEN BS_User(cfg, u).connections ELSE <<>>

BS_ActiveIds(cfg, u) ==
    LET conns == BS_Connections(cfg, u)
    IN {conns[i].key : i \in {j \in 1..Len(conns) : conns[j].val.isActive}}

\* the stored record built at lines 199-205 and 213-219
BS_Record(params, schema) ==
    [host |-> params.host, port |-> params.port, database |-> params.database,
     username |-> params.username, password |-> params.password,
     type |-> "postgresql", isActive |-> TRUE, schema |-> schema]

\* for key in connections: connections[key]["isActive"] = False
BS_DeactivateAllMut(conns) == conns
BS_DeactivateAll(conns) ==
    [i \in 1..Len(conns) |->
        [key |-> conns[i].key, val |-> [conns[i].val EXCEPT !.isActive = FALSE]]]

BS_Activate(conns, cid) ==
    DictSet(conns, cid, [DictGet(conns, cid) EXCEPT !.isActive = TRUE])

\* _find_existing_connection: first stored id (insertion order) with the same
\* (host, port, database, username), else None
BS_find_existing_connection(cfg, u, params) ==
    LET conns == BS_Connections(cfg, u)
        hits == {i \in 1..Len(conns) :
                    /\ conns[i].val.host = params.host
                    /\ conns[i].val.port = params.port
                    /\ conns[i].val.database = params.database
                    /\ conns[i].val.username = params.username}
    IN IF hits = {} THEN None
       ELSE conns[CHOOSE i \in hits : \A j \in hits : i <= j].key

BS_SetUser(cfg, u, rec) == [cfg EXCEPT !.users = DictSet(cfg.users, u, rec)]

\* config["users"].setdefault(user_id, {"currentConnection": None, "connections": {}})
BS_setdefault_user(cfg, u) ==
    IF BS_HasUser(cfg, u) THEN cfg
    ELSE BS_SetUser(cfg, u, [currentConnection |-> None, connections |-> <<>>])

\* add_connection up to its second await: the state when extract_schema is entered
BS_add_before_extract(cfg, u, params) ==
    LET c1 == BS_setdefault_user(cfg, u)
        existing_id == BS_find_existing_connection(c1, u, params)
    IN IF existing_id # None
       THEN BS_SetUser(c1, u, [BS_User(c1, u) EXCEPT
                                   !.connections = BS_DeactivateAll(@)])
       ELSE c1

\* add_connection after extract_schema returned schema; existing_id is the value
\* computed before the await
BS_add_after_extract(cfg, u, connection_id, params, existing_id, schema) ==
    IF existing_id # None
    THEN BS_SetUser(cfg, u,
            [currentConnection |-> existing_id,
             connections |-> DictSet(BS_User(cfg, u).connections, existing_id,
                                     BS_Record(params, schema))])
    ELSE BS_SetUser(cfg, u,
            [currentConnection |-> connection_id,
             connections |-> DictSet(BS_DeactivateAll(BS_User(cfg, u).connections),
                                     connection_id, BS_Record(params, schema))])

BS_FailResult == [success |-> FALSE, raised |-> FALSE, schema |-> NoSchema,
                  isExisting |-> FALSE, existingConnectionId |-> None]
BS_RaiseResult == [BS_FailResult EXCEPT !.raised = TRUE]
BS_OkResult(schema, existing_id) ==
    [success |-> TRUE, raised |-> FALSE, schema |-> schema,
     isExisting |-> existing_id # None, existingConnectionId |-> existing_id]

BS_add_connectionMut(cfg, u, connection_id, params, test_ok, extract) ==
    [config |-> BS_setdefault_user(cfg, u), result |-> BS_FailResult]
\* the whole of add_connection, run without interleaving: test_ok is what
\* test_connection returned, extract is what extract_schema returned or Raises
BS_add_connection(cfg, u, connection_id, params, test_ok, extract) ==
    IF ~test_ok THEN [config |-> cfg, result |-> BS_FailResult]
    ELSE LET existing_id == BS_find_existing_connection(BS_setdefault_user(cfg, u), u, params)
             c2 == BS_add_before_extract(cfg, u, params)
         IN IF extract = Raises
            THEN [config |-> c2, result |-> BS_RaiseResult]
            ELSE [config |-> BS_add_after_extract(c2, u, connection_id, params,
                                                  existing_id, extract),
                  result |-> BS_OkResult(extract, existing_id)]

\* _load_config of a fresh instance: the document is what json.load gives, which
\* for the str, int, bool and None values and the str keys the store writes is
\* what json.dump was given.  An absent (or unreadable) file gives {"users": {}},
\* which is saved; a document with top-level currentConnection and connections
\* is wrapped under the user "migration" and saved.
BS_load_configMut(f) ==
    IF f = <<>> THEN [config |-> BS_EmptyConfig, file |-> <<BS_EmptyConfig>>]
    ELSE LET migrated ==
                [users |-> <<[key |-> "migration",
                              val |-> [currentConnection |-> None,
                                       connections |-> <<>>]]>>]
         IN [config |-> migrated, file |-> <<migrated>>]
BS_load_config(f) ==
    IF f = <<>> THEN [config |-> BS_EmptyConfig, file |-> <<BS_EmptyConfig>>]
    ELSE IF {"currentConnection", "connections"} \subseteq DOMAIN f[1]
         THEN LET migrated ==
                     [users |-> <<[key |-> "migration",
                                   val |-> [currentConnection |-> f[1].currentConnection,
                                            connections |-> f[1].connections]]>>]
              IN [config |-> migrated, file |-> <<migrated>>]
         ELSE [config |-> f[1], file |-> f]

BS_set_active_connectionMut(cfg, u, connection_id) ==
    IF ~BS_HasUser(cfg, u) \/ ~DictHas(BS_User(cfg, u).connections, connection_id)
    THEN [config |-> cfg, result |-> FALSE]
    ELSE [config |-> BS_SetUser(cfg, u,
                        [currentConnection |-> connection_id,
                         connections |-> BS_Activate(BS_User(cfg, u).connections,
                                                     connection_id)]),
          result |-> TRUE]
BS_set_active_connection(cfg, u, connection_id) ==
    IF ~BS_HasUser(cfg, u) \/ ~DictHas(BS_User(cfg, u).connections, connection_id)
    THEN [config |-> cfg, result |-> FALSE]
    ELSE [config |-> BS_SetUser(cfg, u,
                        [currentConnection |-> connection_id,
                         connections |-> BS_Activate(
                             BS_DeactivateAll(BS_User(cfg, u).connections),
                             connection_id)]),
          result |-> TRUE]

BS_remove_connection(cfg, u, connection_id) ==
    IF ~BS_HasUser(cfg, u) \/ ~DictHas(BS_User(cfg, u).connections, connection_id)
    THEN [config |-> cfg, result |-> FALSE]
    ELSE LET user == BS_User(cfg, u)
             remaining == DictPop(user.connections, connection_id)
         IN [config |->
                IF user.currentConnection = connection_id
                THEN BS_SetUser(cfg, u,
                        [currentConnection |->
                            IF remaining # <<>> THEN remaining[1].key ELSE None,
                         connections |->
                            IF remaining # <<>>
                            THEN BS_Activate(remaining, remaining[1].key)
                            ELSE remaining])
                ELSE BS_SetUser(cfg, u, [user EXCEPT !.connections = remaining]),
             result |-> TRUE]

(***************************************************************************)
(* BD_: src/backend/database.py, the connection part of DatabaseManager    *)
(***************************************************************************)
BD_Connections(uc, u) == IF DictHas(uc, u) THEN DictGet(uc, u) ELSE <<>>

\* get_active_connection: the connections whose is_active is true
BD_ActiveIds(uc, u) ==
    LET conns == BD_Connections(uc, u)
    IN {conns[i].key : i \in {j \in 1..Len(conns) : conns[j].val.is_active}}

BD_Record(params, schema) ==
    [connection_params |-> params, schema |-> schema, is_active |-> TRUE]

\* for conn_name in user_connections[user_id]: if conn_name != connection_name: ...
BD_DeactivateOthers(conns, connection_name) ==
    [i \in 1..Len(conns) |->
        IF conns[i].key # connection_name
        THEN [key |-> conns[i].key, val |-> [conns[i].val EXCEPT !.is_active = FALSE]]
        ELSE conns[i]]

\* add_connection: test, extract, store as active, deactivate the others, save
BD_add_connection(uc, u, connection_name, params, test_ok, extract) ==
    IF ~test_ok \/ extract = Raises THEN [user_connections |-> uc, saved |-> FALSE]
    ELSE LET mine == IF DictHas(uc, u) THEN DictGet(uc, u) ELSE <<>>
             stored == DictSet(mine, connection_name, BD_Record(params, extract))
         IN [user_connections |->
                DictSet(uc, u, BD_DeactivateOthers(stored, connection_name)),
             saved |-> TRUE]

\* cleanup_user_connections (logout): drop the user's entry and save
BD_cleanup_user_connections(uc, u) ==
    IF DictHas(uc, u) THEN [user_connections |-> DictPop(uc, u), saved |-> TRUE]
    ELSE [user_connections |-> uc, saved |-> FALSE]

(***************************************************************************)
(* BM_: src/backend/main.py, DatabaseManager and connect_database          *)
(***************************************************************************)
\* load_config: the document, or {"users": {}} when the file is absent
BM_load_config(f) == IF f = <<>> THEN [users |-> <<>>] ELSE f[1]

BM_Record(params, schema) ==
    [host |-> params.host, port |-> params.port, database |-> params.database,
     username |-> params.username, password |-> params.password,
     type |-> "postgresql", isActive |-> TRUE, schema |-> schema]

\* connect_database at time t: the store part.  Any failure inside the try,
\* the HTTPException(400) of a failed test included, leaves as a 500
BM_connect_database(f, ses, u, params, t, test_ok, extract) ==
    IF ~test_ok \/ extract = Raises
    THEN [file |-> f, sessions |-> ses, status |-> 500]
    ELSE LET cfg == BM_load_config(f)
             mine == IF DictHas(cfg.users, u) THEN DictGet(cfg.users, u)
                     ELSE [connections |-> <<>>, currentConnection |-> None]
             connection_id == t
             stored == [currentConnection |-> connection_id,
                        connections |-> DictSet(mine.connections, connection_id,
                                                BM_Record(params, extract))]
         IN [file |-> <<[cfg EXCEPT !.users = DictSet(cfg.users, u, stored)]>>,
             sessions |-> DictSet(ses, u, [db_connection |-> params, schema |-> extract]),
             status |-> 200]

(***************************************************************************)
(* SV_: src/services/database_config.py.  The service keeps nothing in     *)
(* memory: every operation loads database.json and saves it.  A user entry *)
(* is {"connections": {...}, "active_connection": id or None}.             *)
(***************************************************************************)
NoConnection == [none |-> TRUE]      \* Python None where a connection is expected

\* load_config: {} when the file is absent
SV_load_config(f) == IF f = <<>> THEN <<>> ELSE f[1]

SV_Connections(f, u) ==
    IF DictHas(SV_load_config(f), u) THEN DictGet(SV_load_config(f), u).connections
    ELSE <<>>

\* {**connection_details, "schema": schema}
SV_Record(details, schema) ==
    [host |-> details.host, port |-> details.port, database |-> details.database,
     username |-> details.username, password |-> details.password, schema |-> schema]

\* add_connection; an exception of extract_schema is caught at line 215
SV_add_connection(f, u, connection_name, details, test_ok, extract) ==
    IF ~test_ok \/ extract = Raises
    THEN [file |-> f, result |-> BS_FailResult]
    ELSE LET loaded == SV_load_config(f)
             cfg == IF DictHas(loaded, u) THEN loaded
                    ELSE DictSet(loaded, u,
                                 [connections |-> <<>>, active_connection |-> None])
             conns == DictGet(cfg, u).connections
             hits == {i \in 1..Len(conns) : DedupKey(conns[i].val) = DedupKey(details)}
             existing_connection_id ==
                 IF hits = {} THEN None
                 ELSE conns[CHOOSE i \in hits : \A j \in hits : i <= j].key
             target == IF existing_connection_id # None THEN existing_connection_id
                       ELSE connection_name
         IN [file |-> <<DictSet(cfg, u,
                          [connections |-> DictSet(conns, target, SV_Record(details, extract)),
                           active_connection |-> target])>>,
             result |-> BS_OkResult(extract, existing_connection_id)]

SV_get_current_connection(f, u) ==
    LET cfg == SV_load_config(f)
    IN IF DictHas(cfg, u) /\ DictGet(cfg, u).active_connection # None
          /\ DictHas(DictGet(cfg, u).connections, DictGet(cfg, u).active_connection)
       THEN DictGet(DictGet(cfg, u).connections, DictGet(cfg, u).active_connection)
       ELSE NoConnection

SV_set_active_connection(f, u, connection_id) ==
    IF DictHas(SV_Connections(f, u), connection_id)
    THEN [file |-> <<DictSet(SV_load_config(f), u,
                       [DictGet(SV_load_config(f), u) EXCEPT
                            !.active_connection = connection_id])>>,
          result |-> TRUE]
    ELSE [file |-> f, result |-> FALSE]

SV_remove_connection(f, u, connection_id) ==
    IF DictHas(SV_Connections(f, u), connection_id)
    THEN LET user == DictGet(SV_load_config(f), u)
         IN [file |-> <<DictSet(SV_load_config(f), u,
                          [connections |-> DictPop(user.connections, connection_id),
                           active_connection |->
                               IF user.active_connection = connection_id THEN None
                               ELSE user.active_connection])>>,
             result |-> TRUE]
    ELSE [file |-> f, result |-> FALSE]

(***************************************************************************)
(* SV_: the handlers of src/main.py.  A response is the status code and    *)
(* the body fields that carry connections; a handler's except clause turns *)
(* every exception, its own HTTPException(400) included, into a 500.       *)
(***************************************************************************)
Masked == "***"

NoResponse == [endpoint |-> "none", status |-> 0,
               currentConnection |-> NoConnection, connections |-> <<>>]

HttpResponse(endpoint, status, current, connections) ==
    [endpoint |-> endpoint, status |-> status,
     currentConnection |-> current, connections |-> connections]

\* POST /api/connect-db at time t
SV_connect_database(f, ses, u, request, t, test_ok, extract) ==
    LET r == SV_add_connection(f, u, t, request, test_ok, extract)
    IN IF r.result.success
       THEN [file |-> r.file,
             sessions |-> DictSet(DictPop(ses, u), u,
                 [db_connection |-> request, schema |-> r.result.schema,
                  connectionName |-> IF r.result.isExisting
                                     THEN r.result.existingConnectionId ELSE t]),
             response |-> HttpResponse("connect-db", 200, NoConnection, <<>>)]
       ELSE [file |-> r.file, sessions |-> ses,
             response |-> HttpResponse("connect-db", 500, NoConnection, <<>>)]

\* GET /api/database-config: the copies in the list get password "***", the
\* current connection is returned as stored
SV_get_database_config(f, u) ==
    LET all_connections == SV_Connections(f, u)
    IN HttpResponse("database-config", 200, SV_get_current_connection(f, u),
           [i \in 1..Len(all_connections) |->
               [id |-> all_connections[i].key,
                conn |-> [all_connections[i].val EXCEPT !.password = Masked]]])

\* GET /api/schema: 400 "No active database connection" without a session
SV_get_schema(ses, u) ==
    HttpResponse("schema", IF DictHas(ses, u) THEN 200 ELSE 400, NoConnection, <<>>)

\* POST /api/switch-database
SV_switch_database(f, ses, u, connectionId) ==
    LET r == SV_set_active_connection(f, u, connectionId)
        current_connection == SV_get_current_connection(r.file, u)
    IN IF r.result
       THEN [file |-> r.file,
             sessions |->
                 IF current_connection # NoConnection
                    /\ current_connection.schema # NoSchema
                 THEN DictSet(ses, u,
                         [db_connection |->
                             [host |-> current_connection.host,
                              port |-> current_connection.port,
                              database |-> current_connection.database,
                              username |-> current_connection.username,
                              password |-> current_connection.password],
                          schema |-> current_connection.schema,
                          connectionName |-> connectionId])
                 ELSE ses,
             response |-> HttpResponse("switch-database", 200, current_connection, <<>>)]
       ELSE [file |-> f, sessions |-> ses,
             response |-> HttpResponse("switch-database", 500, NoConnection, <<>>)]

\* DELETE /api/database-connection/{connection_id}
SV_remove_database_connection(f, u, connection_id) ==
    LET r == SV_remove_connection(f, u, connection_id)
    IN [file |-> r.file,
        response |-> HttpResponse("database-connection",
                                 IF r.result THEN 200 ELSE 500, NoConnection, <<>>)]

\* GET /api/database-config of backend/main.py: every copy gets password "***"
BM_get_database_config(f, u) ==
    LET user_config == IF DictHas(BM_load_config(f).users, u)
                       THEN DictGet(BM_load_config(f).users, u)
                       ELSE [connections |-> <<>>, currentConnection |-> None]
        conns == user_config.connections
    IN HttpResponse("database-config", 200,
           IF user_config.currentConnection # None
              /\ DictHas(conns, user_config.currentConnection)
           THEN [DictGet(conns, user_config.currentConnection) EXCEPT
                     !.password = Masked]
           ELSE NoConnection,
           [i \in 1..Len(conns) |->
               [id |-> conns[i].key,
                conn |-> [conns[i].val EXCEPT !.password = Masked]]])

(***************************************************************************)
(* SQL generation.  The outcome of the call to the external generator is   *)
(* Unavailable (no key or library), Raised (the call raised) or the text   *)
(* it returned.  A function that raises returns Raised.                    *)
(***************************************************************************)
Unavailable == <<"unavailable">>
Raised == <<"raised">>

\* tables of a cached schema, in dict order, with their column names: the
\* database behind schema "s1" has one table, the one behind "s2" has none
SchemaTables(schema) ==
    IF schema = "s1"
    THEN << [name |-> <<"t">>, columns |-> << <<"i","d">>, <<"a","m","o","u","n","t">>, <<"c","r","e","a","t","e","d","_","a","t">> >>] >>
    ELSE <<>>

\* sep.join(parts)
RECURSIVE join(_, _)
join(parts, sep) ==
    IF parts = <<>> THEN <<>>
    ELSE IF Len(parts) = 1 THEN parts[1]
    ELSE parts[1] \o sep \o join(Tail(parts), sep)

\* s.find(sub) + 1: position of the first occurrence, 0 when there is none
find(s, sub) ==
    IF contains(s, sub)
    THEN CHOOSE i \in 1..Len(s) :
            /\ startswith(SubSeq(s, i, Len(s)), sub)
            /\ \A j \in 1..(i - 1) : ~startswith(SubSeq(s, j, Len(s)), sub)
    ELSE 0

\* the re.search for a fenced SELECT (fence, optional sql, whitespace, SELECT
\* and what follows up to the whitespace before the next fence): group(1).strip()
\* of the leftmost match, NoneText when nothing matches
RECURSIVE search_fenced_select(_)
search_fenced_select(s) ==
    IF s = <<>> THEN NoneText
    ELSE LET after3 == SubSeq(s, 4, Len(s))
             body == lstrip(IF startswith(lower(after3), <<"s","q","l">>)
                            THEN SubSeq(after3, 4, Len(after3)) ELSE after3)
             rest == SubSeq(body, 7, Len(body))
         IN IF /\ startswith(s, <<Backquote,Backquote,Backquote>>)
               /\ startswith(upper(body), <<"S","E","L","E","C","T">>)
               /\ contains(rest, <<Backquote,Backquote,Backquote>>)
            THEN strip(SubSeq(body, 1, 6 + find(rest, <<Backquote,Backquote,Backquote>>) - 1))
            ELSE search_fenced_select(Tail(s))

\* BS_: _fallback_sql of backend/services/gemini.py
BS_fallback_sql(query, schema) ==
    LET tables == SchemaTables(schema)
        first == tables[1]
        cols == SubSeq(first.columns, 1, IF Len(first.columns) < 5
                                         THEN Len(first.columns) ELSE 5)
        column_list == IF cols # <<>> THEN join(cols, <<","," ">>) ELSE <<"*">>
    IN IF tables = <<>> THEN <<"S","E","L","E","C","T"," ","1",";">>
       ELSE IF /\ \E i \in 1..Len(tables) : tables[i].name = <<"l","o","a","n","s">>
               /\ contains(lower(query), <<"t","o","t","a","l">>)
               /\ contains(lower(query), <<"l","o","a","n">>)
            THEN <<"S","E","L","E","C","T"," ","S","U","M","(","C","O","A","L","E","S","C","E","(","l","o","a","n",
                    "_","a","m","o","u","n","t",",","0",")",")"," ","A","S"," ","t","o","t","a","l","_","l","o","a",
                    "n","_","a","m","o","u","n","t",","," ","C","O","U","N","T","(","*",")"," ","A","S"," ","t","o",
                    "t","a","l","_","l","o","a","n","s"," ","F","R","O","M"," ","l","o","a","n","s"," ","W","H","E",
                    "R","E"," ","l","o","a","n","_","a","m","o","u","n","t"," ","I","S"," ","N","O","T"," ","N","U",
                    "L","L",";">>
            ELSE <<"S","E","L","E","C","T"," ">> \o column_list \o <<" ","F","R","O","M"," ">> \o first.name \o <<" ","L","I","M","I","T"," ","1","0",";">>

\* BS_: generate_sql_from_query of backend/services/gemini.py
BS_generate_sql_from_query(nl_query, schema, outcome) ==
    IF outcome \in {Unavailable, Raised} THEN BS_fallback_sql(nl_query, schema)
    ELSE LET raw == strip(outcome)
             m == search_fenced_select(raw)
             inner == IF contains(raw, <<Backquote,Backquote,Backquote>>) /\ m # NoneText THEN m ELSE raw
             idx == find(upper(inner), <<"S","E","L","E","C","T">>)
             tail == IF idx > 1 THEN SubSeq(inner, idx, Len(inner)) ELSE inner
         IN strip(collapse(tail))

\* BM_: get_fallback_sql of backend/main.py
BM_get_fallback_sql(schema) ==
    LET tables == SchemaTables(schema)
        first_table == tables[1]
        columns == SubSeq(first_table.columns, 1, IF Len(first_table.columns) < 5
                                                  THEN Len(first_table.columns) ELSE 5)
    IN IF tables # <<>>
       THEN <<"S","E","L","E","C","T"," ">> \o join(columns, <<","," ">>) \o <<" ","F","R","O","M"," ">> \o first_table.name
                \o <<" ","L","I","M","I","T"," ","1","0">>
       ELSE <<"S","E","L","E","C","T"," ","1"," ","a","s"," ","s","a","m","p","l","e","_","d","a","t","a">>

\* BM_: re.sub(r'^[^S]*SELECT', 'SELECT', sql, flags=re.IGNORECASE)
BM_ensure_select(s) ==
    LET u == upper(s)
        i == find(u, <<"S">>)
    IN IF i > 0 /\ startswith(SubSeq(u, i, Len(u)), <<"S","E","L","E","C","T">>)
       THEN <<"S","E","L","E","C","T">> \o SubSeq(s, i + 6, Len(s))
       ELSE s

\* BM_: generate_sql_from_query of backend/main.py.  The import of re at line 402
\* makes re a local name bound only when the text holds a fence: without a fence
\* line 408 raises UnboundLocalError and the except clause returns the fallback
BM_generate_sql_from_query(query, schema, outcome) ==
    IF outcome \in {Unavailable, Raised} THEN BM_get_fallback_sql(schema)
    ELSE LET stripped == strip(outcome)
             m == search_fenced_select(stripped)
         IN IF ~contains(stripped, <<Backquote,Backquote,Backquote>>) THEN BM_get_fallback_sql(schema)
            ELSE BM_ensure_select(IF m # NoneText THEN m ELSE stripped)

\* BD_: GeminiService.generate_sql_from_query of backend/gemini.py: no fallback
BD_generate_sql_from_query(query, schema, outcome) ==
    IF outcome \in {Unavailable, Raised} THEN Raised
    ELSE LET sql_query == strip(remove(remove(strip(outcome), <<Backquote,Backquote,Backquote,"s","q","l">>, FALSE),
                                       <<Backquote,Backquote,Backquote>>, FALSE))
         IN IF sql_query = <<>> \/ lower(sql_query) \in {<<"n","o","n","e">>, <<"n","u","l","l">>, <<"e","m","p","t","y">>}
            THEN Raised
            ELSE sql_query

\* SV_: _generate_fallback_sql of services/gemini_service.py
SV_generate_fallback_sql(query) ==
    LET query_lower == lower(query)
    IN IF contains(query_lower, <<"s","a","l","a","r","y">>) \/ contains(query_lower, <<"d","e","p","a","r","t","m","e","n","t">>)
       THEN IF contains(query_lower, <<"a","v","e","r","a","g","e">>)
            THEN <<"\n"," "," "," "," "," "," "," "," "," "," "," "," "," "," "," "," ","S","E","L","E","C","T"," ",
                    "d","e","p","a","r","t","m","e","n","t",","," ","\n"," "," "," "," "," "," "," "," "," "," "," ",
                    " "," "," "," "," "," "," "," "," "," "," "," ","A","V","G","(","C","O","A","L","E","S","C","E",
                    "(","s","a","l","a","r","y",","," ","0",")",")"," ","a","s"," ","a","v","g","_","s","a","l","a",
                    "r","y",",","\n"," "," "," "," "," "," "," "," "," "," "," "," "," "," "," "," "," "," "," "," ",
                    " "," "," ","C","O","U","N","T","(","*",")"," ","a","s"," ","e","m","p","l","o","y","e","e","_",
                    "c","o","u","n","t"," ","\n"," "," "," "," "," "," "," "," "," "," "," "," "," "," "," "," ","F",
                    "R","O","M"," ","e","m","p","l","o","y","e","e","s"," ","\n"," "," "," "," "," "," "," "," "," ",
                    " "," "," "," "," "," "," ","G","R","O","U","P"," ","B","Y"," ","d","e","p","a","r","t","m","e",
                    "n","t"," ","\n"," "," "," "," "," "," "," "," "," "," "," "," "," "," "," "," ","O","R","D","E",
                    "R"," ","B","Y"," ","a","v","g","_","s","a","l","a","r","y"," ","D","E","S","C"," ","\n"," "," ",
                    " "," "," "," "," "," "," "," "," "," "," "," "," "," ","L","I","M","I","T"," ","1","0",";","\n",
                    " "," "," "," "," "," "," "," "," "," "," "," "," "," "," "," ">>
            ELSE <<"\n"," "," "," "," "," "," "," "," "," "," "," "," "," "," "," "," ","S","E","L","E","C","T"," ",
                    "d","e","p","a","r","t","m","e","n","t",","," ","C","O","U","N","T","(","*",")"," ","a","s"," ",
                    "e","m","p","l","o","y","e","e","_","c","o","u","n","t"," ","\n"," "," "," "," "," "," "," "," ",
                    " "," "," "," "," "," "," "," ","F","R","O","M"," ","e","m","p","l","o","y","e","e","s"," ","\n",
                    " "," "," "," "," "," "," "," "," "," "," "," "," "," "," "," ","G","R","O","U","P"," ","B","Y",
                    " ","d","e","p","a","r","t","m","e","n","t"," ","\n"," "," "," "," "," "," "," "," "," "," "," ",
                    " "," "," "," "," ","O","R","D","E","R"," ","B","Y"," ","e","m","p","l","o","y","e","e","_","c",
                    "o","u","n","t"," ","D","E","S","C"," ","\n"," "," "," "," "," "," "," "," "," "," "," "," "," ",
                    " "," "," ","L","I","M","I","T"," ","1","0",";","\n"," "," "," "," "," "," "," "," "," "," "," ",
                    " "," "," "," "," ">>
       ELSE IF contains(query_lower, <<"l","o","a","n">>) \/ contains(query_lower, <<"c","u","s","t","o","m","e","r">>)
            THEN IF contains(query_lower, <<"a","m","o","u","n","t">>)
                 THEN <<"\n"," "," "," "," "," "," "," "," "," "," "," "," "," "," "," "," ","S","E","L","E","C","T"," ",
                    "l","o","a","n","_","s","t","a","t","u","s",","," ","\n"," "," "," "," "," "," "," "," "," "," ",
                    " "," "," "," "," "," "," "," "," "," "," "," "," ","S","U","M","(","C","O","A","L","E","S","C",
                    "E","(","l","o","a","n","_","a","m","o","u","n","t",","," ","0",")",")"," ","a","s"," ","t","o",
                    "t","a","l","_","a","m","o","u","n","t",",","\n"," "," "," "," "," "," "," "," "," "," "," "," ",
                    " "," "," "," "," "," "," "," "," "," "," ","C","O","U","N","T","(","*",")"," ","a","s"," ","l",
                    "o","a","n","_","c","o","u","n","t"," ","\n"," "," "," "," "," "," "," "," "," "," "," "," "," ",
                    " "," "," ","F","R","O","M"," ","l","o","a","n","s"," ","\n"," "," "," "," "," "," "," "," "," ",
                    " "," "," "," "," "," "," ","G","R","O","U","P"," ","B","Y"," ","l","o","a","n","_","s","t","a",
                    "t","u","s"," ","\n"," "," "," "," "," "," "," "," "," "," "," "," "," "," "," "," ","O","R","D",
                    "E","R"," ","B","Y"," ","t","o","t","a","l","_","a","m","o","u","n","t"," ","D","E","S","C",";",
                    "\n"," "," "," "," "," "," "," "," "," "," "," "," "," "," "," "," ">>
                 ELSE <<"\n"," "," "," "," "," "," "," "," "," "," "," "," "," "," "," "," ","S","E","L","E","C","T"," ",
                    "c","u","s","t","o","m","e","r","_","t","y","p","e",","," ","C","O","U","N","T","(","*",")"," ",
                    "a","s"," ","c","u","s","t","o","m","e","r","_","c","o","u","n","t"," ","\n"," "," "," "," "," ",
                    " "," "," "," "," "," "," "," "," "," "," ","F","R","O","M"," ","c","u","s","t","o","m","e","r",
                    "s"," ","\n"," "," "," "," "," "," "," "," "," "," "," "," "," "," "," "," ","G","R","O","U","P",
                    " ","B","Y"," ","c","u","s","t","o","m","e","r","_","t","y","p","e"," ","\n"," "," "," "," "," ",
                    " "," "," "," "," "," "," "," "," "," "," ","O","R","D","E","R"," ","B","Y"," ","c","u","s","t",
                    "o","m","e","r","_","c","o","u","n","t"," ","D","E","S","C",";","\n"," "," "," "," "," "," "," ",
                    " "," "," "," "," "," "," "," "," ">>
            ELSE <<"S","E","L","E","C","T"," ","'","N","o"," ","d","a","t","a"," ","a","v","a","i","l","a","b","l",
                    "e","'"," ","a","s"," ","m","e","s","s","a","g","e",","," ","0"," ","a","s"," ","c","o","u","n",
                    "t",";">>

\* SV_: GeminiService.generate_sql_from_query of services/gemini_service.py
SV_generate_sql_from_query(query, schema, outcome) ==
    IF outcome \in {Unavailable, Raised} THEN SV_generate_fallback_sql(query)
    ELSE IF SV_is_safe_sql(SV_clean_sql_response(outcome))
         THEN SV_clean_sql_response(outcome)
         ELSE SV_generate_fallback_sql(query)

(***************************************************************************)
(* Query execution.  db is what the database does to the call.  A result   *)
(* tells the text handed to cursor.execute (NoneText when none was),       *)
(* whether the function returned without closing the connection it opened, *)
(* and how it ended.                                                       *)
(***************************************************************************)
DbOutcomes == {"connect_fails", "execute_fails", "rows", "no_rows"}

ExecResult(executed_text, left_open, ending) ==
    [executed |-> executed_text, left_open |-> left_open, ending |-> ending]

\* SV_: QueryExecutor.execute_query of services/query_executor.py: no gate;
\* conn.close() at line 78 is skipped when cursor.execute raises
SV_execute_query(f, sql_query, u, db) ==
    IF SV_get_current_connection(f, u) = NoConnection \/ db = "connect_fails"
    THEN ExecResult(NoneText, FALSE, "error")
    ELSE IF db = "execute_fails" THEN ExecResult(sql_query, TRUE, "error")
         ELSE ExecResult(sql_query, FALSE, "ok")

\* BM_: execute_query of backend/main.py: no gate; close in a finally clause
BM_execute_query(sql_text, conn_params, db) ==
    IF db = "connect_fails" THEN ExecResult(NoneText, FALSE, "raised")
    ELSE IF db = "execute_fails" THEN ExecResult(sql_text, FALSE, "raised")
         ELSE ExecResult(sql_text, FALSE, "ok")

\* BD_: DatabaseManager.execute_query of backend/database.py: the connection
\* is opened before sanitize_sql runs and closed on the success path only
BD_execute_query(uc, u, sql_query, db) ==
    IF BD_ActiveIds(uc, u) = {} \/ db = "connect_fails"
    THEN ExecResult(NoneText, FALSE, "error")
    ELSE IF BD_sanitize_sql(sql_query) \in {NoneText, <<>>}
         THEN ExecResult(NoneText, TRUE, "error")
         ELSE IF db = "execute_fails"
              THEN ExecResult(BD_sanitize_sql(sql_query), TRUE, "error")
              ELSE ExecResult(BD_sanitize_sql(sql_query), FALSE, "ok")

BS_get_current_connection(cfg, u) ==
    IF /\ BS_HasUser(cfg, u)
       /\ BS_User(cfg, u).currentConnection # None
       /\ DictHas(BS_User(cfg, u).connections, BS_User(cfg, u).currentConnection)
    THEN DictGet(BS_User(cfg, u).connections, BS_User(cfg, u).currentConnection)
    ELSE NoConnection

\* BS_: QueryExecutor.execute_query of backend/services/query_executor.py:
\* the gate first, then async with, which closes on every path
BS_execute_query(cfg, sql_query, u, db) ==
    IF BS_get_current_connection(cfg, u) = NoConnection
    THEN ExecResult(NoneText, FALSE, "raised")
    ELSE IF BS_sanitize(sql_query) = NoneText \/ db = "connect_fails"
         THEN ExecResult(NoneText, FALSE, "raised")
         ELSE IF db = "execute_fails"
              THEN ExecResult(BS_sanitize(sql_query), FALSE, "raised")
              ELSE ExecResult(BS_sanitize(sql_query), FALSE, "ok")

\* POST /api/query-kpi of src/main.py: the HTTPException(400) raised at line
\* 263 for a user without a session is caught by the handler's own except
\* clause at 286 and raised again as a 500; the generator and the executor
\* never raise, so with a session the answer is 200
SV_query_kpi(f, ses, u, query, outcome, db) ==
    IF ~DictHas(ses, u)
    THEN [response |-> HttpResponse("query-kpi", 500, NoConnection, <<>>),
          generator_called |-> FALSE,
          results |-> ExecResult(NoneText, FALSE, "raised")]
    ELSE [response |-> HttpResponse("query-kpi", 200, NoConnection, <<>>),
          generator_called |-> TRUE,
          results |-> SV_execute_query(f,
                         SV_generate_sql_from_query(query, DictGet(ses, u).schema, outcome),
                         u, db)]

(***************************************************************************)
(* Input domains of the gates, the generators and the executors            *)
(***************************************************************************)
\* pieces a caller or the generator can put in a text
GateTokens ==
    { <<Backquote,Backquote,Backquote,"s","q","l","\n">>, <<"\n",Backquote,Backquote,Backquote>>, <<Backquote,Backquote,Backquote>>, <<"S","E","L","E","C","T"," ","1">>, <<"s","e","l","e","c","t"," ","*"," ","f","r","o","m"," ","t">>, <<";"," ">>,
      <<"D","R","O","P"," ","T","A","B","L","E"," ","x">>, <<"G","R","A","N","T"," ","A","L","L"," ","O","N"," ","t"," ","T","O"," ","u">>, <<"C","A","L","L"," ","p","(",")">>,
      <<"S","E","L","E","C","T"," ","c","r","e","a","t","e","d","_","a","t"," ","F","R","O","M"," ","t">>, <<" ">> }

\* the texts made of at most n pieces
RECURSIVE Texts(_)
Texts(n) ==
    IF n = 0 THEN {<<>>}
    ELSE Texts(n - 1) \cup {t \o k : t \in Texts(n - 1), k \in GateTokens}

GateTexts == Texts(MaxTokens)

\* texts handed to execute_query by a caller or returned by the generator
SqlTexts ==
    { <<>>, <<"S","E","L","E","C","T"," ","1">>, <<Backquote,Backquote,Backquote,"s","q","l","\n","S","E","L","E","C","T"," ","1","\n",Backquote,Backquote,Backquote>>, <<"D","R","O","P"," ","T","A","B","L","E"," ","x">>,
      <<"S","E","L","E","C","T"," ","1",";"," ","D","R","O","P"," ","T","A","B","L","E"," ","x">>, <<Backquote,Backquote,Backquote,"s","q","l","\n","S","E","L","E","C","T"," ","1",";"," ","D","R","O","P"," ","T","A","B","L","E"," ","x","\n",Backquote,Backquote,Backquote>> }

Queries == { <<"a","v","e","r","a","g","e"," ","s","a","l","a","r","y">>, <<"l","o","a","n"," ","a","m","o","u","n","t">>, <<"s","h","o","w"," ","e","v","e","r","y","t","h","i","n","g">> }
Schemas == {"s1", "s2"}
GenOutcomes == {Unavailable, Raised} \cup SqlTexts

NotSanitized == [by |-> "none", out |-> NoneText]
NoResults == [table_data |-> <<>>, columns |-> <<>>, row_count |-> 0,
              chart_data |-> [type |-> "none", data |-> <<>>, xAxis |-> <<>>, yAxis |-> <<>>]]
NotGenerated == [by |-> "none", query |-> <<>>, schema |-> NoSchema, outcome |-> Raised]

\* a connection the function returned without closing stays open until the
\* runtime finalises the connection object, which may be at once or never
StillOpen(left_open) == IF left_open THEN {0, 1} ELSE {0}

(***************************************************************************)
(* Store operations issued one after the other: each action is one whole   *)
(* call, the save included                                                 *)
(***************************************************************************)
BS_AddConnection ==
    /\ impl = "backend_services"
    /\ \E u \in Users, cid \in ConnIds, p \in Params :
       \E o \in Outcomes(p) :
          \E r \in {BS_add_connection(config, u, cid, p, o.test_ok, o.extract)} :
             /\ config' = r.config
             /\ file' = IF r.result.success THEN <<r.config>> ELSE file
    /\ UNCHANGED BS_Frame

BS_SetActiveConnection ==
    /\ impl = "backend_services"
    /\ \E u \in Users, cid \in ConnIds :
          \E r \in {BS_set_active_connection(config, u, cid)} :
             /\ config' = r.config
             /\ file' = IF r.result THEN <<r.config>> ELSE file
    /\ UNCHANGED BS_Frame

BS_RemoveConnection ==
    /\ impl = "backend_services"
    /\ \E u \in Users, cid \in ConnIds :
          \E r \in {BS_remove_connection(config, u, cid)} :
             /\ config' = r.config
             /\ file' = IF r.result THEN <<r.config>> ELSE file
    /\ UNCHANGED BS_Frame

BD_AddConnection ==
    /\ impl = "backend_database"
    /\ \E u \in Users, name \in ConnIds, p \in Params :
       \E o \in Outcomes(p) :
          \E r \in {BD_add_connection(user_connections, u, name, p, o.test_ok, o.extract)} :
             /\ user_connections' = r.user_connections
             /\ file' = IF r.saved THEN <<r.user_connections>> ELSE file
    /\ UNCHANGED BD_Frame

BD_CleanupUserConnections ==
    /\ impl = "backend_database"
    /\ \E u \in Users :
          \E r \in {BD_cleanup_user_connections(user_connections, u)} :
             /\ user_connections' = r.user_connections
             /\ file' = IF r.saved THEN <<r.user_connections>> ELSE file
    /\ UNCHANGED BD_Frame

\* DatabaseConfigService(): self.config = {} and then _load_config
BS_LoadConfig ==
    /\ impl = "backend_services"
    /\ config = <<>>
    /\ \E r \in {BS_load_config(file)} :
          /\ config' = r.config
          /\ file' = r.file
    /\ UNCHANGED BS_Frame

\* SV_: the store of src/services called on its own; it keeps nothing in memory
SV_AddConnection ==
    /\ impl = "src_services"
    /\ \E u \in Users, cid \in ConnIds, p \in Params :
       \E o \in Outcomes(p) :
          file' = SV_add_connection(file, u, cid, p, o.test_ok, o.extract).file
    /\ UNCHANGED <<resVars, impl, config, user_connections, sessions, now, concVars, reqVars>>

SV_SetActiveConnection ==
    /\ impl = "src_services"
    /\ \E u \in Users, cid \in ConnIds :
          file' = SV_set_active_connection(file, u, cid).file
    /\ UNCHANGED <<resVars, impl, config, user_connections, sessions, now, concVars, reqVars>>

SV_RemoveConnection ==
    /\ impl = "src_services"
    /\ \E u \in Users, cid \in ConnIds :
          file' = SV_remove_connection(file, u, cid).file
    /\ UNCHANGED <<resVars, impl, config, user_connections, sessions, now, concVars, reqVars>>

BM_ConnectDatabase ==
    /\ impl = "backend_main"
    /\ \E u \in Users, p \in Params :
       \E o \in Outcomes(p) :
          \E r \in {BM_connect_database(file, sessions, u, p, now, o.test_ok, o.extract)} :
             /\ file' = r.file
             /\ sessions' = r.sessions
             \* test_connection skips conn.close() at line 227 when SELECT 1 raises
             /\ response' = HttpResponse("connect-db", r.status, NoConnection, <<>>)
             /\ \E n \in StillOpen(~o.test_ok) : open_conns' = open_conns + n
    /\ open_conns < MaxOpen
    /\ UNCHANGED <<resVars, impl, config, user_connections, now, concVars,
                   sql, sanitized, generated, executed>>

\* time passes between two requests
Tick ==
    /\ now < MaxId
    /\ now' = now + 1
    /\ UNCHANGED <<resVars, impl, config, user_connections, file, sessions, concVars, reqVars>>

(***************************************************************************)
(* BS_ requests served by one event loop: a coroutine runs until its next  *)
(* await.  add_connection awaits test_connection and extract_schema;       *)
(* set_active_connection and remove_connection never await.                *)
(***************************************************************************)
BS_AddStart ==
    /\ impl = "backend_services"
    /\ calls < MaxCalls
    /\ \E s \in 1..MaxInFlight, u \in Users, cid \in ConnIds, p \in Params :
          /\ inflight[s] = Idle
          /\ inflight' = [inflight EXCEPT ![s] =
                [pc |-> "test_connection", user |-> u, id |-> cid, params |-> p,
                 existing_id |-> None]]
    /\ calls' = calls + 1
    /\ UNCHANGED <<resVars, impl, config, user_connections, file, sessions, now, resurrected, reqVars>>

\* test_connection returns: lines 185-198, up to the await of extract_schema
BS_AddTestReturns ==
    /\ \E s \in 1..MaxInFlight, ok \in BOOLEAN :
          /\ inflight[s].pc = "test_connection"
          /\ IF ok
             THEN LET r == inflight[s]
                  IN /\ config' = BS_add_before_extract(config, r.user, r.params)
                     /\ inflight' = [inflight EXCEPT ![s] =
                           [r EXCEPT !.pc = "extract_schema",
                                     !.existing_id = BS_find_existing_connection(
                                         BS_setdefault_user(config, r.user),
                                         r.user, r.params)]]
             ELSE /\ inflight' = [inflight EXCEPT ![s] = Idle]
                  /\ UNCHANGED config
    /\ UNCHANGED <<resVars, impl, user_connections, file, sessions, now, calls, resurrected, reqVars>>

\* extract_schema returns or raises: lines 199-208 or 211-222
BS_AddExtractReturns ==
    /\ \E s \in 1..MaxInFlight :
          LET r == inflight[s]
          IN /\ r.pc = "extract_schema"
             /\ \E ex \in {Raises, SchemaOf(r.params)} :
                   IF ex = Raises
                   THEN UNCHANGED <<config, file, resurrected>>
                   ELSE /\ config' = BS_add_after_extract(config, r.user, r.id, r.params,
                                                          r.existing_id, ex)
                        /\ file' = <<config'>>
                        /\ resurrected' =
                              (resurrected \/
                               (r.existing_id # None /\
                                ~DictHas(BS_Connections(config, r.user), r.existing_id)))
             /\ inflight' = [inflight EXCEPT ![s] = Idle]
    /\ UNCHANGED <<resVars, impl, user_connections, sessions, now, calls, reqVars>>

BS_SetActiveBetween ==
    /\ impl = "backend_services"
    /\ calls < MaxCalls
    /\ \E u \in Users, cid \in ConnIds :
          \E r \in {BS_set_active_connection(config, u, cid)} :
             /\ config' = r.config
             /\ file' = IF r.result THEN <<r.config>> ELSE file
    /\ calls' = calls + 1
    /\ UNCHANGED <<resVars, impl, user_connections, sessions, now, inflight, resurrected, reqVars>>

BS_RemoveBetween ==
    /\ impl = "backend_services"
    /\ calls < MaxCalls
    /\ \E u \in Users, cid \in ConnIds :
          \E r \in {BS_remove_connection(config, u, cid)} :
             /\ config' = r.config
             /\ file' = IF r.result THEN <<r.config>> ELSE file
    /\ calls' = calls + 1
    /\ UNCHANGED <<resVars, impl, user_connections, sessions, now, inflight, resurrected, reqVars>>

(***************************************************************************)
(* The gates applied to a caller-supplied text                             *)
(***************************************************************************)
BD_SanitizeSql ==
    /\ impl = "backend_database"
    /\ sanitized' = [by |-> "sanitize_sql", out |-> BD_sanitize_sql(sql)]
    /\ UNCHANGED <<resVars, storeVars, concVars, sql, generated, executed, open_conns, response>>

SV_IsSafeSql ==
    /\ impl = "src_main"
    /\ sanitized' = [by |-> "_is_safe_sql",
                     out |-> IF SV_is_safe_sql(SV_clean_sql_response(sql))
                             THEN SV_clean_sql_response(sql) ELSE NoneText]
    /\ UNCHANGED <<resVars, storeVars, concVars, sql, generated, executed, open_conns, response>>

BS_Sanitize ==
    /\ impl = "backend_services"
    /\ sanitized' = [by |-> "execute_query", out |-> BS_sanitize(sql)]
    /\ UNCHANGED <<resVars, storeVars, concVars, sql, generated, executed, open_conns, response>>

(***************************************************************************)
(* SQL generation and query execution, one call per action                 *)
(***************************************************************************)
Generated(q, s, o) == [by |-> "generate_sql_from_query", query |-> q, schema |-> s,
                       outcome |-> o]

SV_GenerateSql ==
    /\ impl = "src_main"
    /\ \E q \in Queries, s \in Schemas, o \in GenOutcomes :
          /\ sql' = SV_generate_sql_from_query(q, s, o)
          /\ generated' = Generated(q, s, o)
          /\ sanitized' =
                IF o \in {Unavailable, Raised} THEN NotSanitized
                ELSE [by |-> "_is_safe_sql",
                      out |-> IF SV_is_safe_sql(SV_clean_sql_response(o))
                              THEN SV_clean_sql_response(o) ELSE NoneText]
    /\ UNCHANGED <<resVars, storeVars, concVars, executed, open_conns, response>>

BS_GenerateSql ==
    /\ impl = "backend_services"
    /\ \E q \in Queries, s \in Schemas, o \in GenOutcomes :
          /\ sql' = BS_generate_sql_from_query(q, s, o)
          /\ generated' = Generated(q, s, o)
    /\ sanitized' = NotSanitized
    /\ UNCHANGED <<resVars, storeVars, concVars, executed, open_conns, response>>

BD_GenerateSql ==
    /\ impl = "backend_database"
    /\ \E q \in Queries, s \in Schemas, o \in GenOutcomes :
          /\ sql' = BD_generate_sql_from_query(q, s, o)
          /\ generated' = Generated(q, s, o)
    /\ sanitized' = NotSanitized
    /\ UNCHANGED <<resVars, storeVars, concVars, executed, open_conns, response>>

BM_GenerateSql ==
    /\ impl = "backend_main"
    /\ \E q \in Queries, s \in Schemas, o \in GenOutcomes :
          /\ sql' = BM_generate_sql_from_query(q, s, o)
          /\ generated' = Generated(q, s, o)
    /\ sanitized' = NotSanitized
    /\ UNCHANGED <<resVars, storeVars, concVars, executed, open_conns, response>>

SV_ExecuteQuery ==
    /\ impl = "src_main"
    /\ sql # Raised
    /\ open_conns < MaxOpen
    /\ \E u \in Users, db \in DbOutcomes :
          \E r \in {SV_execute_query(file, sql, u, db)} :
             /\ executed' = r.executed
             /\ \E n \in StillOpen(r.left_open) : open_conns' = open_conns + n
    /\ UNCHANGED <<resVars, storeVars, concVars, sql, sanitized, generated, response>>

BM_ExecuteQuery ==
    /\ impl = "backend_main"
    /\ sql # Raised
    /\ open_conns < MaxOpen
    /\ \E p \in Params, db \in DbOutcomes :
          \E r \in {BM_execute_query(sql, p, db)} :
             /\ executed' = r.executed
             /\ \E n \in StillOpen(r.left_open) : open_conns' = open_conns + n
    /\ UNCHANGED <<resVars, storeVars, concVars, sql, sanitized, generated, response>>

BD_ExecuteQuery ==
    /\ impl = "backend_database"
    /\ sql # Raised
    /\ open_conns < MaxOpen
    /\ \E u \in Users, db \in DbOutcomes :
          \E r \in {BD_execute_query(user_connections, u, sql, db)} :
             /\ executed' = r.executed
             /\ sanitized' =
                   IF BD_ActiveIds(user_connections, u) = {} \/ db = "connect_fails"
                   THEN sanitized
                   ELSE [by |-> "sanitize_sql", out |-> BD_sanitize_sql(sql)]
             /\ \E n \in StillOpen(r.left_open) : open_conns' = open_conns + n
    /\ UNCHANGED <<resVars, storeVars, concVars, sql, generated, response>>

BS_ExecuteQuery ==
    /\ impl = "backend_services"
    /\ sql # Raised
    /\ open_conns < MaxOpen
    /\ \E u \in Users, db \in DbOutcomes :
          \E r \in {BS_execute_query(config, sql, u, db)} :
             /\ executed' = r.executed
             /\ sanitized' =
                   IF BS_get_current_connection(config, u) = NoConnection
                   THEN sanitized
                   ELSE [by |-> "execute_query", out |-> BS_sanitize(sql)]
             /\ \E n \in StillOpen(r.left_open) : open_conns' = open_conns + n
    /\ UNCHANGED <<resVars, storeVars, concVars, sql, generated, response>>

\* SV_: DatabaseConfigService.extract_schema on its own: conn.close() at line
\* 150 is skipped when a catalog query raises
SV_ExtractSchema ==
    /\ impl = "src_main"
    /\ open_conns < MaxOpen
    /\ \E db \in DbOutcomes :
       \E n \in StillOpen(db = "execute_fails") : open_conns' = open_conns + n
    /\ UNCHANGED <<resVars, storeVars, concVars, sql, sanitized, generated, executed, response>>

(***************************************************************************)
(* SV_: the handlers of src/main.py, one request per action; connect-db    *)
(* derives the connection name from the clock                              *)
(***************************************************************************)
SV_ConnectDatabase ==
    /\ impl = "src_main"
    /\ \E u \in Users, p \in Params :
       \E o \in Outcomes(p) :
          \E r \in {SV_connect_database(file, sessions, u, p, now, o.test_ok, o.extract)} :
             /\ file' = r.file
             /\ sessions' = r.sessions
             /\ response' = r.response
             \* extract_schema skips conn.close() at line 150 when a query raises
             /\ \E n \in StillOpen(o.test_ok /\ o.extract = Raises) :
                   open_conns' = open_conns + n
    /\ open_conns < MaxOpen
    /\ UNCHANGED <<resVars, impl, config, user_connections, now, concVars,
                   sql, sanitized, generated, executed>>

SV_GetDatabaseConfig ==
    /\ impl = "src_main"
    /\ \E u \in Users : response' = SV_get_database_config(file, u)
    /\ UNCHANGED <<resVars, storeVars, concVars, sql, sanitized, generated, executed, open_conns>>

SV_GetSchema ==
    /\ impl = "src_main"
    /\ \E u \in Users : response' = SV_get_schema(sessions, u)
    /\ UNCHANGED <<resVars, storeVars, concVars, sql, sanitized, generated, executed, open_conns>>

SV_QueryKpi ==
    /\ impl = "src_main"
    /\ open_conns < MaxOpen
    \* the generated text reaches neither the status nor the session: the
    \* generator is taken without its API key here
    /\ \E u \in Users, q \in Queries, db \in DbOutcomes :
          \E r \in {SV_query_kpi(file, sessions, u, q, Unavailable, db)} :
             /\ response' = r.response
             /\ \E n \in StillOpen(r.results.left_open) : open_conns' = open_conns + n
    /\ UNCHANGED <<resVars, storeVars, concVars, sql, sanitized, generated, executed>>

SV_SwitchDatabase ==
    /\ impl = "src_main"
    /\ \E u \in Users, cid \in ConnIds :
          \E r \in {SV_switch_database(file, sessions, u, cid)} :
             /\ file' = r.file
             /\ sessions' = r.sessions
             /\ response' = r.response
    /\ UNCHANGED <<resVars, impl, config, user_connections, now, concVars,
                   sql, sanitized, generated, executed, open_conns>>

SV_RemoveDatabaseConnection ==
    /\ impl = "src_main"
    /\ \E u \in Users, cid \in ConnIds :
          \E r \in {SV_remove_database_connection(file, u, cid)} :
             /\ file' = r.file
             /\ response' = r.response
    /\ UNCHANGED <<resVars, impl, config, user_connections, sessions, now, concVars,
                   sql, sanitized, generated, executed, open_conns>>

\* POST /api/logout: del sessions[session_key]
SV_Logout ==
    /\ impl = "src_main"
    /\ \E u \in Users :
          /\ sessions' = DictPop(sessions, u)
          /\ response' = HttpResponse("logout", 200, NoConnection, <<>>)
    /\ UNCHANGED <<resVars, impl, config, user_connections, file, now, concVars,
                   sql, sanitized, generated, executed, open_conns>>

BM_GetDatabaseConfig ==
    /\ impl = "backend_main"
    /\ \E u \in Users : response' = BM_get_database_config(file, u)
    /\ UNCHANGED <<resVars, storeVars, concVars, sql, sanitized, generated, executed, open_conns>>

\* the state after construction: database.json is absent.  BS_ _load_config then
\* fails, sets {"users": {}} and saves it; BD_ load_config leaves the file absent
InitStores ==
    /\ config = BS_EmptyConfig
    /\ user_connections = <<>>
    /\ file = IF impl = "backend_services" THEN <<BS_EmptyConfig>> ELSE <<>>
    /\ sessions = <<>>
    /\ now = 1
    /\ inflight = [s \in 1..MaxInFlight |-> Idle]
    /\ calls = 0
    /\ resurrected = FALSE
    /\ sanitized = NotSanitized
    /\ generated = NotGenerated
    /\ executed = NoneText
    /\ open_conns = 0
    /\ response = NoResponse
    /\ results = NoResults

Init ==
    /\ impl \in {"backend_services", "backend_database", "src_services"}
    /\ InitStores
    /\ rows = <<>>
    /\ sql = NoneText

Next ==
    \/ BS_AddConnection
    \/ BS_SetActiveConnection
    \/ BS_RemoveConnection
    \/ BD_AddConnection
    \/ BD_CleanupUserConnections
    \/ SV_AddConnection
    \/ SV_SetActiveConnection
    \/ SV_RemoveConnection

Spec == Init /\ [][Next]_vars

InitBM ==
    /\ impl = "backend_main"
    /\ InitStores
    /\ rows = <<>>
    /\ sql = NoneText

NextBM ==
    \/ BM_ConnectDatabase
    \/ Tick

SpecBM == InitBM /\ [][NextBM]_vars

InitConc ==
    /\ impl = "backend_services"
    /\ InitStores
    /\ rows = <<>>
    /\ sql = NoneText

NextConc ==
    \/ BS_AddStart
    \/ BS_AddTestReturns
    \/ BS_AddExtractReturns
    \/ BS_SetActiveBetween
    \/ BS_RemoveBetween

SpecConc == InitConc /\ [][NextConc]_vars

\* the gates as pure functions: the text is drawn once, then a gate is applied
InitGate ==
    /\ impl \in {"backend_database", "src_main", "backend_services"}
    /\ InitStores
    /\ rows = <<>>
    /\ sql \in GateTexts

NextGate ==
    \/ BD_SanitizeSql
    \/ SV_IsSafeSql
    \/ BS_Sanitize

SpecGate == InitGate /\ [][NextGate]_vars

\* generation and execution: admin@bank has connected once, admin@ithr never;
\* the text in hand at the start is the one a caller supplies
FirstParams == CHOOSE p \in Params : p.host = "h1"

InitQuery ==
    /\ impl \in {"src_main", "backend_services", "backend_database", "backend_main"}
    /\ config = IF impl = "backend_services"
                THEN BS_add_connection(BS_EmptyConfig, "admin@bank", 1, FirstParams,
                                       TRUE, SchemaOf(FirstParams)).config
                ELSE BS_EmptyConfig
    /\ user_connections =
          IF impl = "backend_database"
          THEN BD_add_connection(<<>>, "admin@bank", 1, FirstParams,
                                 TRUE, SchemaOf(FirstParams)).user_connections
          ELSE <<>>
    /\ file = IF impl = "backend_services" THEN <<config>>
              ELSE IF impl = "backend_database" THEN <<user_connections>>
              ELSE IF impl = "src_main"
                   THEN SV_add_connection(<<>>, "admin@bank", 1, FirstParams,
                                          TRUE, SchemaOf(FirstParams)).file
                   ELSE <<>>
    /\ sessions = <<>>
    /\ now = 1
    /\ inflight = [s \in 1..MaxInFlight |-> Idle]
    /\ calls = 0
    /\ resurrected = FALSE
    /\ sql \in SqlTexts
    /\ sanitized = NotSanitized
    /\ generated = NotGenerated
    /\ executed = NoneText
    /\ open_conns = 0
    /\ response = NoResponse
    /\ rows = <<>>
    /\ results = NoResults

NextQuery ==
    \/ SV_GenerateSql
    \/ BS_GenerateSql
    \/ BD_GenerateSql
    \/ BM_GenerateSql
    \/ SV_ExecuteQuery
    \/ BS_ExecuteQuery
    \/ BD_ExecuteQuery
    \/ BM_ExecuteQuery
    \/ SV_ExtractSchema

SpecQuery == InitQuery /\ [][NextQuery]_vars

\* the HTTP handlers of src/main.py and of backend/main.py
InitMain ==
    /\ impl \in {"src_main", "backend_main"}
    /\ InitStores
    /\ rows = <<>>
    /\ sql = NoneText

NextMain ==
    \/ SV_ConnectDatabase
    \/ SV_GetDatabaseConfig
    \/ SV_GetSchema
    \/ SV_QueryKpi
    \/ SV_SwitchDatabase
    \/ SV_RemoveDatabaseConnection
    \/ SV_Logout
    \/ BM_ConnectDatabase
    \/ BM_GetDatabaseConfig
    \/ Tick

SpecMain == InitMain /\ [][NextMain]_vars

\* a process start: database.json is absent or holds a document in the old
\* single-connection layout, and the service object is not constructed yet
InitLoad ==
    /\ impl \in {"backend_services", "src_services"}
    /\ user_connections = <<>>
    /\ sessions = <<>>
    /\ now = 1
    /\ inflight = [s \in 1..MaxInFlight |-> Idle]
    /\ calls = 0
    /\ resurrected = FALSE
    /\ sql = NoneText
    /\ sanitized = NotSanitized
    /\ generated = NotGenerated
    /\ executed = NoneText
    /\ open_conns = 0
    /\ response = NoResponse
    /\ rows = <<>>
    /\ results = NoResults
    /\ LET one == <<[key |-> 1, val |-> BS_Record(FirstParams, SchemaOf(FirstParams))]>>
           two == BS_DeactivateAll(one)
                    \o <<[key |-> 2,
                          val |-> BS_Record(CHOOSE p \in Params : p # FirstParams, "s2")]>>
           legacy == {[currentConnection |-> 2, connections |-> two]}
       IN \E d \in legacy, absent \in BOOLEAN :
             file = IF absent THEN <<>>
                    ELSE IF impl = "backend_services" THEN <<d>>
                    ELSE <<(<<[key |-> "currentConnection", val |-> d.currentConnection],
                              [key |-> "connections", val |-> d.connections]>>)>>
    /\ config = IF impl = "backend_services" THEN <<>> ELSE BS_EmptyConfig

NextLoad ==
    \/ BS_LoadConfig
    \/ (config # <<>> /\ BS_AddConnection)
    \/ (config # <<>> /\ BS_SetActiveConnection)
    \/ (config # <<>> /\ BS_RemoveConnection)
    \/ SV_AddConnection
    \/ SV_SetActiveConnection
    \/ SV_RemoveConnection

SpecLoad == InitLoad /\ [][NextLoad]_vars

(***************************************************************************)
(* Result processing: what execute_query does with the fetched rows.  A    *)
(* row is a dict from column name to value; a value is a record telling    *)
(* its Python type (t), its number (n), whether float() accepts it         *)
(* (numeric) and whether the date parser accepts its text (date).          *)
(***************************************************************************)
\* result sets: a first row of two columns followed by rows of nulls
ResultRows ==
    LET names == { <<"A","v","g","_","s","a","l">>, <<"c","n","t">>,
                   <<"d","e","p","t">>, <<"d","a","t","e">> }
        values == { [t |-> "NoneType", n |-> 0, numeric |-> FALSE, date |-> FALSE],
                    [t |-> "int", n |-> 0, numeric |-> TRUE, date |-> FALSE],
                    [t |-> "int", n |-> 5, numeric |-> TRUE, date |-> FALSE],
                    [t |-> "Decimal", n |-> 3, numeric |-> TRUE, date |-> FALSE],
                    [t |-> "str", n |-> 1, numeric |-> FALSE, date |-> FALSE],
                    [t |-> "str", n |-> 2, numeric |-> FALSE, date |-> TRUE] }
        firsts == { <<[key |-> c1, val |-> v1], [key |-> c2, val |-> v2]>> :
                       <<c1, c2, v1, v2>> \in
                          {q \in names \X names \X values \X values : q[1] # q[2]} }
        nulls(row) == [i \in 1..Len(row) |->
                          [key |-> row[i].key,
                           val |-> [t |-> "NoneType", n |-> 0,
                                    numeric |-> FALSE, date |-> FALSE]]]
    IN { [i \in 1..n |-> IF i = 1 THEN row ELSE nulls(row)] :
            row \in firsts, n \in 1..MaxRows }

\* BS_: lines 58-70 of execute_query: a None becomes 0 unless the column name
\* contains "avg" or "average"
BS_clean_nulls(fetched) ==
    [i \in 1..Len(fetched) |->
        [j \in 1..Len(fetched[i]) |->
            LET key == fetched[i][j].key
                value == fetched[i][j].val
            IN [key |-> key,
                val |-> IF value.t = "NoneType"
                        THEN IF contains(lower(key), <<"a","v","g">>)
                                \/ contains(lower(key), <<"a","v","e","r","a","g","e">>)
                             THEN value
                             ELSE [t |-> "int", n |-> 0, numeric |-> TRUE, date |-> FALSE]
                        ELSE value]]]

\* BS_: _generate_chart_data and _is_date_like
BS_generate_chart_data(rs, columns) ==
    IF rs = <<>> \/ columns = <<>>
    THEN [type |-> "bar", data |-> <<>>, xAxis |-> <<>>, yAxis |-> <<>>]
    ELSE LET first(c) == DictGet(rs[1], c)
             is_number(v) == v.t \in {"int", "float"} \/ v.numeric
             numeric_cols == SelectSeq(columns, LAMBDA c : is_number(first(c)))
             text_cols == SelectSeq(columns,
                             LAMBDA c : first(c).t = "str" /\ ~is_number(first(c)))
             date_cols == SelectSeq(columns,
                             LAMBDA c : first(c).t = "str" /\ first(c).date)
         IN IF date_cols # <<>> /\ numeric_cols # <<>>
            THEN [type |-> "line", data |-> rs,
                  xAxis |-> date_cols[1], yAxis |-> numeric_cols[1]]
            ELSE IF text_cols # <<>> /\ numeric_cols # <<>>
                 THEN [type |-> "bar", data |-> rs,
                       xAxis |-> text_cols[1], yAxis |-> numeric_cols[1]]
                 \* the pie branch at lines 118-121 has the condition of the
                 \* branch before it and more, so it is never taken
                 ELSE [type |-> "bar", data |-> rs, xAxis |-> columns[1],
                       yAxis |-> IF Len(columns) > 1 THEN columns[2] ELSE columns[1]]

\* SV_: _generate_chart_data of services/query_executor.py: a column is numeric
\* when its first value is an int or float other than 0, textual otherwise
SV_generate_chart_data(table_data, columns) ==
    IF table_data = <<>> \/ Len(columns) < 2
    THEN [type |-> "bar", data |-> <<>>, xAxis |-> <<>>, yAxis |-> <<>>]
    ELSE LET value(c) == DictGet(table_data[1], c)
             numeric(c) == value(c).t \in {"int", "float"} /\ value(c).n # 0
             numeric_columns == SelectSeq(columns, LAMBDA c : numeric(c))
             text_columns == SelectSeq(columns, LAMBDA c : ~numeric(c))
         IN IF text_columns # <<>> /\ numeric_columns # <<>>
            THEN IF Len(table_data) <= 6
                 THEN [type |-> "pie", data |-> table_data,
                       xAxis |-> text_columns[1], yAxis |-> numeric_columns[1]]
                 ELSE [type |-> IF \E i \in 1..Len(columns) :
                                      \/ contains(lower(columns[i]), <<"d","a","t","e">>)
                                      \/ contains(lower(columns[i]), <<"t","i","m","e">>)
                                THEN "line" ELSE "bar",
                       data |-> table_data,
                       xAxis |-> text_columns[1], yAxis |-> numeric_columns[1]]
            ELSE [type |-> "bar", data |-> table_data,
                  xAxis |-> columns[1], yAxis |-> columns[2]]

\* BS_: execute_query from the fetch on (lines 56-82)
BS_FetchRows ==
    /\ impl = "backend_services"
    /\ results = NoResults
    /\ \E cleaned_rows \in {BS_clean_nulls(rows)} :
          results' = [table_data |-> cleaned_rows,
                      columns |-> DictKeys(rows[1]),
                      row_count |-> Len(cleaned_rows),
                      chart_data |-> BS_generate_chart_data(cleaned_rows,
                                                            DictKeys(rows[1]))]
    /\ UNCHANGED <<storeVars, concVars, reqVars, rows>>

\* SV_: execute_query from the fetch on (lines 47-65)
SV_FetchRows ==
    /\ impl = "src_main"
    /\ results = NoResults
    /\ results' = [table_data |-> rows,
                   columns |-> DictKeys(rows[1]),
                   row_count |-> Len(rows),
                   chart_data |-> SV_generate_chart_data(rows, DictKeys(rows[1]))]
    /\ UNCHANGED <<storeVars, concVars, reqVars, rows>>

InitResult ==
    /\ impl \in {"backend_services", "src_main"}
    /\ InitStores
    /\ rows \in ResultRows
    /\ sql = NoneText

NextResult ==
    \/ BS_FetchRows
    \/ SV_FetchRows

SpecResult == InitResult /\ [][NextResult]_vars

(***************************************************************************)
(* Claims                                                                  *)
(***************************************************************************)
\* C1: for every user, after any sequence of add_connection,
\* set_active_connection and remove_connection calls issued one after the
\* other, at most one stored connection of the user has its active flag true
C1_AtMostOneActive ==
    \A u \in Users :
        /\ Cardinality(BS_ActiveIds(config, u)) <= 1
        /\ Cardinality(BD_ActiveIds(user_connections, u)) <= 1

\* a user holds two stored connections, one of them active: an activation has
\* deactivated a sibling
C1_Witness ==
    \E u \in Users :
        /\ Len(BS_Connections(config, u)) >= 2
        /\ Cardinality(BS_ActiveIds(config, u)) = 1

\* C2: for every user with at least one stored connection, exactly one of the
\* stored connections is active
C2_ExactlyOneActiveIfAny ==
    \A u \in Users :
        /\ Len(BS_Connections(config, u)) >= 1
              => Cardinality(BS_ActiveIds(config, u)) = 1
        /\ Len(BD_Connections(user_connections, u)) >= 1
              => Cardinality(BD_ActiveIds(user_connections, u)) = 1

StoredKeys(conns) == [i \in 1..Len(conns) |-> DedupKey(conns[i].val)]
NoDuplicateKey(conns) ==
    \A i, j \in 1..Len(conns) : StoredKeys(conns)[i] = StoredKeys(conns)[j] => i = j

BM_Connections(f, u) ==
    IF DictHas(BM_load_config(f).users, u)
    THEN DictGet(BM_load_config(f).users, u).connections ELSE <<>>

\* C3: connecting twice with credentials that agree on (host, port, database,
\* username) leaves one stored record for that key: no user ever holds two
\* stored records with the same key
C3_OneRecordPerKey ==
    \A u \in Users :
        /\ NoDuplicateKey(BS_Connections(config, u))
        /\ impl = "backend_main" => NoDuplicateKey(BM_Connections(file, u))

\* C4: when requests interleave at the awaits of add_connection, the store
\* left once every request has returned is one a serial order produces: no two
\* records of a user share a dedup key, at most one connection per user is
\* active, and no removed connection has been written back
C4_InterleavingIsSerial ==
    (\A s \in 1..MaxInFlight : inflight[s] = Idle) =>
        /\ \A u \in Users : NoDuplicateKey(BS_Connections(config, u))
        /\ \A u \in Users : Cardinality(BS_ActiveIds(config, u)) <= 1
        /\ ~resurrected

\* C5: a text is sent to a database only after the gate has accepted that
\* very text: whatever text the last execute_query handed to cursor.execute is
\* the text the gate returned
C5_ExecutedOnlyIfGated ==
    executed # NoneText => sanitized.out = executed

\* C6: the gate returns null when the text, fences stripped and trimmed, does
\* not start with SELECT in any letter case, and when one of the thirteen
\* keywords occurs in the upper-cased text; otherwise it returns the SQL with
\* its letters as they were
C6_SanitizeContract ==
    sanitized.by # "none" =>
        LET keywords == << <<"D","R","O","P">>, <<"D","E","L","E","T","E">>, <<"I","N","S","E","R","T">>, <<"U","P","D","A","T","E">>, <<"A","L","T","E","R">>,
                           <<"C","R","E","A","T","E">>, <<"T","R","U","N","C","A","T","E">>, <<"E","X","E","C">>, <<"E","X","E","C","U","T","E">>, <<"M","E","R","G","E">>,
                           <<"C","A","L","L">>, <<"G","R","A","N","T">>, <<"R","E","V","O","K","E">> >>
            trimmed == strip(remove(remove(sql, <<Backquote,Backquote,Backquote,"s","q","l">>, FALSE), <<Backquote,Backquote,Backquote>>, FALSE))
            IsLetter(c) == \E k \in 1..Len(LowerAlpha) : c \in {LowerAlpha[k], UpperAlpha[k]}
        IN IF \/ ~startswith(upper(trimmed), <<"S","E","L","E","C","T">>)
              \/ \E k \in 1..Len(keywords) : contains(upper(sql), keywords[k])
           THEN sanitized.out = NoneText
           ELSE /\ sanitized.out # NoneText
                /\ SelectSeq(sanitized.out, IsLetter) = SelectSeq(trimmed, IsLetter)

\* C7: a text the gate accepts is one statement: nothing but whitespace
\* follows a ';' in it
C7_SingleStatement ==
    (sanitized.by # "none" /\ sanitized.out # NoneText) =>
        \A i \in 1..Len(sanitized.out) :
            sanitized.out[i] = ";" =>
                strip(SubSeq(sanitized.out, i + 1, Len(sanitized.out))) = <<>>

\* C8: whatever the generator does, generate_sql_from_query returns a SELECT,
\* never raises and never returns an empty text; when the generator is
\* unavailable, raises, returns an empty text or a text the gate rejects, the
\* result is the fallback: a bounded sample of the first table of the schema,
\* or a query that reads no table when the schema has none
C8_FallbackOnEveryOutcome ==
    generated.by # "none" =>
        LET tables == SchemaTables(generated.schema)
            failed == \/ generated.outcome \in {Unavailable, Raised}
                      \/ strip(generated.outcome) = <<>>
                      \/ BD_sanitize_sql(generated.outcome) = NoneText
        IN /\ sql \notin {Raised, <<>>}
           /\ startswith(upper(strip(sql)), <<"S","E","L","E","C","T">>)
           /\ failed =>
                 IF tables # <<>>
                 THEN contains(sql, <<" ","F","R","O","M"," ">> \o tables[1].name \o <<" ","L","I","M","I","T"," ">>)
                 ELSE ~contains(upper(sql), <<" ","F","R","O","M"," ">>)

\* C9: every password field of a database-config or switch-database response,
\* in the connection list and in currentConnection, is the placeholder
C9_PasswordsMasked ==
    response.endpoint \in {"database-config", "switch-database"} =>
        /\ \/ response.currentConnection = NoConnection
           \/ response.currentConnection.password = Masked
        /\ \A i \in 1..Len(response.connections) :
              response.connections[i].conn.password = Masked

\* C10: whenever test_connection, extract_schema or execute_query has
\* returned or raised, no database connection is open
C10_NoOpenConnection ==
    open_conns = 0

\* C11: when the connection test fails, add_connection returns success=false
\* and leaves the store as it was, in memory and in the file (nothing is saved),
\* whatever extract_schema would have done: it is not called
C11_TestFailureLeavesStore ==
    \A u \in Users, cid \in ConnIds, p \in Params :
    \A extract \in {Raises, SchemaOf(p)} :
        /\ impl = "backend_services" =>
              \E r \in {BS_add_connection(config, u, cid, p, FALSE, extract)} :
                 r.config = config /\ ~r.result.success /\ ~r.result.raised
        /\ impl = "src_services" =>
              \E r \in {SV_add_connection(file, u, cid, p, FALSE, extract)} :
                 r.file = file /\ ~r.result.success
        /\ impl = "backend_database" =>
              \E r \in {BD_add_connection(user_connections, u, cid, p, FALSE, extract)} :
                 r.user_connections = user_connections /\ ~r.saved

\* a user holds two stored connections, one of them active and saved: the
\* store a failed connection test has to leave alone
C11_Witness ==
    \E u \in Users :
        /\ Len(BS_Connections(config, u)) >= 2
        /\ BS_ActiveIds(config, u) # {}
        /\ file = <<config>>
        /\ ~BS_add_connection(config, u, 1, FirstParams, FALSE, Raises).result.success

\* C12: when the test succeeds and extract_schema fails, add_connection fails
\* and keeps nothing partial: the stored connections of every user, their
\* active flags and the current pointer are as before, in memory and in the
\* file, and no record is added
C12_ExtractFailureKeepsNothingPartial ==
    \A u \in Users, cid \in ConnIds, p \in Params :
        /\ impl = "backend_services" =>
              \E r \in {BS_add_connection(config, u, cid, p, TRUE, Raises)} :
                 /\ ~r.result.success
                 /\ \A v \in Users :
                       /\ BS_Connections(r.config, v) = BS_Connections(config, v)
                       /\ BS_HasUser(config, v) =>
                             BS_User(r.config, v).currentConnection
                                = BS_User(config, v).currentConnection
        /\ impl = "src_services" =>
              \E r \in {SV_add_connection(file, u, cid, p, TRUE, Raises)} :
                 r.file = file /\ ~r.result.success

\* C13: set_active_connection(user, id) returns false and changes nothing when
\* id is not one of the user's stored connections, an id of another user
\* included; when id is known it returns true, id is then the user's one active
\* connection, every sibling is inactive, the records and the other users are
\* as before, and no step that makes the change in memory leaves the file
\* different from the memory
C13_SetActiveConnection ==
    /\ [](\A u \in Users, cid \in ConnIds :
            /\ impl = "backend_services" =>
                  \E r \in {BS_set_active_connection(config, u, cid)} :
                     IF DictHas(BS_Connections(config, u), cid)
                     THEN /\ r.result
                          /\ BS_ActiveIds(r.config, u) = {cid}
                          /\ BS_User(r.config, u).currentConnection = cid
                          /\ BS_DeactivateAll(BS_Connections(r.config, u))
                                = BS_DeactivateAll(BS_Connections(config, u))
                          /\ \A v \in Users \ {u} :
                                BS_Connections(r.config, v) = BS_Connections(config, v)
                     ELSE ~r.result /\ r.config = config
            /\ impl = "src_services" =>
                  \E r \in {SV_set_active_connection(file, u, cid)} :
                     IF DictHas(SV_Connections(file, u), cid)
                     THEN /\ r.result
                          /\ DictGet(SV_load_config(r.file), u).active_connection = cid
                          /\ \A v \in Users :
                                SV_Connections(r.file, v) = SV_Connections(file, v)
                     ELSE ~r.result /\ r.file = file)
    /\ [][(impl = "backend_services" /\ config' # config /\ file' # <<config'>>) =>
            \A u \in Users, cid \in ConnIds :
               \E r \in {BS_set_active_connection(config, u, cid)} :
                  ~(r.result /\ config' = r.config)]_vars

\* a user with two stored connections of which the first is the active and
\* current one, saved, while another user does not have that id
C13_Witness ==
    \E u \in Users, v \in Users :
        /\ impl = "backend_services" /\ u # v
        /\ Len(BS_Connections(config, u)) >= 2
        /\ BS_ActiveIds(config, u) = {BS_Connections(config, u)[1].key}
        /\ BS_User(config, u).currentConnection = BS_Connections(config, u)[1].key
        /\ ~DictHas(BS_Connections(config, v), BS_Connections(config, u)[1].key)
        /\ ~BS_set_active_connection(config, v, BS_Connections(config, u)[1].key).result
        /\ file = <<config>>

\* C14: remove_connection(user, id) returns false and changes nothing when id
\* is unknown for the user; otherwise exactly that record goes, and when it was
\* the active one and others remain one of those is active afterwards, while
\* removing a connection that was not active leaves the active one as it was
C14_RemoveConnection ==
    \A u \in Users, cid \in ConnIds :
        /\ impl = "backend_services" =>
              \E r \in {BS_remove_connection(config, u, cid)} :
                 IF DictHas(BS_Connections(config, u), cid)
                 THEN /\ r.result
                      /\ BS_DeactivateAll(BS_Connections(r.config, u))
                            = BS_DeactivateAll(DictPop(BS_Connections(config, u), cid))
                      /\ (cid \in BS_ActiveIds(config, u)
                             /\ BS_Connections(r.config, u) # <<>>)
                            => BS_ActiveIds(r.config, u) # {}
                      /\ cid \notin BS_ActiveIds(config, u)
                            => BS_ActiveIds(r.config, u) = BS_ActiveIds(config, u)
                 ELSE ~r.result /\ r.config = config
        /\ impl = "src_services" =>
              \E r \in {SV_remove_connection(file, u, cid)} :
                 IF DictHas(SV_Connections(file, u), cid)
                 THEN /\ r.result
                      /\ SV_Connections(r.file, u) = DictPop(SV_Connections(file, u), cid)
                      /\ (DictGet(SV_load_config(file), u).active_connection = cid
                             /\ SV_Connections(r.file, u) # <<>>)
                            => DictHas(SV_Connections(r.file, u),
                                       DictGet(SV_load_config(r.file), u).active_connection)
                      /\ DictGet(SV_load_config(file), u).active_connection # cid
                            => DictGet(SV_load_config(r.file), u).active_connection
                                 = DictGet(SV_load_config(file), u).active_connection
                 ELSE ~r.result /\ r.file = file

\* C15: a user has a session only from a successful connect or switch until
\* the next logout or removal of the connection the session is bound to: the
\* connection a session names is stored for the user, and get_schema answers
\* 400 for a user unless that holds
C15_SessionOnlyWhileConnectionStored ==
    impl = "src_main" =>
        \A u \in Users :
            /\ DictHas(sessions, u) =>
                  DictHas(SV_Connections(file, u), DictGet(sessions, u).connectionName)
            /\ SV_get_schema(sessions, u).status = 200 =>
                  /\ DictHas(sessions, u)
                  /\ DictHas(SV_Connections(file, u), DictGet(sessions, u).connectionName)

\* C16: logout destroys only the in-memory session: the logout cleanup of the
\* store, cleanup_user_connections, leaves the stored connections of the user,
\* their schemas and active flags as they were and writes nothing to the file
C16_LogoutKeepsStore ==
    impl = "backend_database" =>
        \A u \in Users :
            \E r \in {BD_cleanup_user_connections(user_connections, u)} :
                /\ r.user_connections = user_connections
                /\ ~r.saved

\* C17: query_kpi and get_schema called for a user without a session answer
\* with the client error 400 "No active database connection", never with a
\* 500 and never with an exception, and call neither the generator nor the
\* database
C17_NoSessionIsClientError ==
    impl = "src_main" =>
        \A u \in Users :
            ~DictHas(sessions, u) =>
                /\ SV_get_schema(sessions, u).status = 400
                /\ \A q \in Queries, o \in GenOutcomes, db \in DbOutcomes :
                      \E r \in {SV_query_kpi(file, sessions, u, q, o, db)} :
                         /\ r.response.status = 400
                         /\ ~r.generator_called
                         /\ r.results.executed = NoneText

\* C18: a connect whose connection test fails is answered with the client
\* error carrying the connection failure (400), not with a 500, and creates or
\* overwrites no session and no stored connection
C18_TestFailureIsRejectedConnect ==
    \A u \in Users, p \in Params :
    \A extract \in {Raises, SchemaOf(p)} :
        /\ impl = "src_main" =>
              \E r \in {SV_connect_database(file, sessions, u, p, now, FALSE, extract)} :
                 /\ r.response.status = 400
                 /\ r.file = file
                 /\ r.sessions = sessions
        /\ impl = "backend_main" =>
              \E r \in {BM_connect_database(file, sessions, u, p, now, FALSE, extract)} :
                 /\ r.status = 400
                 /\ r.file = file
                 /\ r.sessions = sessions

\* C19: when a SELECT the gate accepts fails at the database, execute_query
\* returns a structured failure instead of raising, having sent the statement
\* once, and a statement that returns no rows ends as a non-error result
C19_ExecutionFailureIsStructured ==
    \A u \in Users, p \in Params :
        /\ (impl = "src_main" /\ SV_is_safe_sql(sql)
               /\ SV_get_current_connection(file, u) # NoConnection) =>
              /\ SV_execute_query(file, sql, u, "execute_fails")
                    = ExecResult(sql, TRUE, "error")
              /\ SV_execute_query(file, sql, u, "no_rows").ending = "ok"
        /\ (impl = "backend_services" /\ BS_sanitize(sql) # NoneText
               /\ BS_get_current_connection(config, u) # NoConnection) =>
              /\ BS_execute_query(config, sql, u, "execute_fails").ending = "error"
              /\ BS_execute_query(config, sql, u, "execute_fails").executed
                    = BS_sanitize(sql)
              /\ BS_execute_query(config, sql, u, "no_rows").ending = "ok"
        /\ (impl = "backend_main" /\ BS_sanitize(sql) # NoneText) =>
              /\ BM_execute_query(sql, p, "execute_fails").ending = "error"
              /\ BM_execute_query(sql, p, "execute_fails").executed = sql
              /\ BM_execute_query(sql, p, "no_rows").ending = "ok"

\* C20: after every store operation has returned or raised, the persisted
\* document equals the in-memory store: every in-memory mutation has been
\* saved, also on a path that ends in a failure
C20_FileMirrorsMemory ==
    impl = "backend_services" => file = <<config>>

C22_LoadMigrates ==
    /\ (impl = "backend_services" /\ config = <<>>) =>
          \E r \in {BS_load_config(file)} :
             /\ file = <<>> => r.config = BS_EmptyConfig
             /\ DOMAIN r.config = {"users"}
             /\ (file # <<>> /\ "connections" \in DOMAIN file[1]) =>
                   \E i \in 1..Len(r.config.users) :
                      /\ r.config.users[i].val.connections = file[1].connections
                      /\ r.config.users[i].val.currentConnection
                            = file[1].currentConnection
             /\ r.file = <<r.config>>
             /\ BS_load_config(r.file) = r
    /\ impl = "src_services" =>
          \E doc \in {SV_load_config(file)} :
             /\ file = <<>> => doc = <<>>
             /\ ~DictHas(doc, "currentConnection")
             /\ ~DictHas(doc, "connections")

\* C23: within a user's serially issued connect, switch, remove and query
\* calls, a session that exists is bound to the user's active stored
\* connection: the same id, the same credentials and the same schema, so that
\* get_schema and query_kpi work on the connection the last call made active
C23_SessionIsActiveConnection ==
    \A u \in Users :
        DictHas(sessions, u) =>
            /\ impl = "src_main" =>
                  \E cur \in {SV_get_current_connection(file, u)} :
                     /\ cur # NoConnection
                     /\ DictGet(SV_load_config(file), u).active_connection
                           = DictGet(sessions, u).connectionName
                     /\ cur.schema = DictGet(sessions, u).schema
                     /\ DedupKey(cur) = DedupKey(DictGet(sessions, u).db_connection)
                     /\ cur.password = DictGet(sessions, u).db_connection.password
            /\ impl = "backend_main" =>
                  /\ DictHas(BM_load_config(file).users, u)
                  /\ \E mine \in {DictGet(BM_load_config(file).users, u)} :
                        /\ DictHas(mine.connections, mine.currentConnection)
                        /\ \E cur \in {DictGet(mine.connections, mine.currentConnection)} :
                              /\ cur.schema = DictGet(sessions, u).schema
                              /\ DedupKey(cur) = DedupKey(DictGet(sessions, u).db_connection)
                              /\ cur.password = DictGet(sessions, u).db_connection.password

\* C24: null normalisation works on each column of each row on its own: a
\* value that is not null comes back unchanged, a null in a column whose name
\* contains avg or average (in any case) stays null, a null in another column
\* becomes 0; the rows, the columns and their order are as fetched
C24_NullNormalisation ==
    results # NoResults =>
        /\ Len(results.table_data) = Len(rows)
        /\ results.row_count = Len(rows)
        /\ results.columns = DictKeys(rows[1])
        /\ \A i \in 1..Len(rows) :
              /\ DictKeys(results.table_data[i]) = DictKeys(rows[i])
              /\ \A j \in 1..Len(rows[i]) :
                    \E old \in {rows[i][j].val}, new \in {results.table_data[i][j].val} :
                       IF old.t # "NoneType" THEN new = old
                       ELSE IF contains(lower(rows[i][j].key), <<"a","v","g">>)
                               \/ contains(lower(rows[i][j].key),
                                           <<"a","v","e","r","a","g","e">>)
                            THEN new = old
                            ELSE new.t = "int" /\ new.n = 0

\* C25: for a result that is not empty and has a date-like column and a
\* numeric column, judged on the values of the first row as returned, the
\* chart is a line with x the first date-like column and y the first numeric
\* column
C25_DateAndNumericIsLine ==
    results # NoResults =>
        \E first \in {results.table_data[1]} :
        \E date_like \in {SelectSeq(results.columns,
                             LAMBDA c : DictGet(first, c).date)},
           numeric \in {SelectSeq(results.columns,
                             LAMBDA c : DictGet(first, c).numeric)} :
              (date_like # <<>> /\ numeric # <<>>) =>
                  /\ results.chart_data.type = "line"
                  /\ results.chart_data.xAxis = date_like[1]
                  /\ results.chart_data.yAxis = numeric[1]

\* C26: for a result that is not empty and has no date-like column, a textual
\* column and a numeric column, the chart has x the first textual column and
\* y the first numeric column, and is a pie for at most 10 rows and a bar for
\* more
C26_TextAndNumericIsPieOrBar ==
    results # NoResults =>
        \E first \in {results.table_data[1]} :
        \E date_like \in {SelectSeq(results.columns,
                             LAMBDA c : DictGet(first, c).date)},
           textual \in {SelectSeq(results.columns,
                             LAMBDA c : DictGet(first, c).t = "str")},
           numeric \in {SelectSeq(results.columns,
                             LAMBDA c : DictGet(first, c).numeric)} :
              (date_like = <<>> /\ textual # <<>> /\ numeric # <<>>) =>
                  /\ results.chart_data.xAxis = textual[1]
                  /\ results.chart_data.yAxis = numeric[1]
                  /\ results.chart_data.type
                       = IF Len(results.table_data) <= 10 THEN "pie" ELSE "bar"

\* C27: the fallback query is itself accepted by the safety gate for every
\* schema: whenever the generator was unavailable or raised and a fallback
\* text was produced from the cached schema, that text starts with SELECT and
\* holds none of the keywords the gate rejects, so the gate returns it
C27_FallbackPassesGate ==
    (generated.by # "none" /\ generated.outcome \in {Unavailable, Raised} /\ sql # Raised) =>
        /\ impl \in {"backend_services", "backend_main"} =>
              /\ startswith(upper(strip(sql)), <<"S","E","L","E","C","T">>)
              /\ BD_sanitize_sql(sql) # NoneText
        /\ impl = "src_main" => SV_is_safe_sql(sql)

\* C28: users are isolated: every request is served for one user a, and it
\* leaves what is stored for every other user (connections, flags, pointer),
\* in memory and in database.json, and that user's session as they were; the
\* connections a response returns are connections stored for a
C28_UsersIsolated ==
    [][LET view(d, u) == IF DictHas(d, u) THEN DictGet(d, u)
                         ELSE [connections |-> <<>>, currentConnection |-> None]
           users(f) == IF impl = "backend_services" THEN BM_load_config(f).users
                       ELSE SV_load_config(f)
           entry(f, u) == IF DictHas(users(f), u) THEN <<DictGet(users(f), u)>> ELSE <<>>
           session(ses, u) == IF DictHas(ses, u) THEN <<DictGet(ses, u)>> ELSE <<>>
           owned(f, u) == IF entry(f, u) = <<>> THEN <<>> ELSE entry(f, u)[1].connections
       IN impl \in {"backend_services", "src_services", "src_main"} =>
          \E a \in Users :
             /\ \A b \in Users : b # a =>
                   /\ impl = "backend_services" =>
                         /\ view(config'.users, b) = view(config.users, b)
                         /\ view(users(file'), b) = view(users(file), b)
                   /\ impl # "backend_services" => entry(file', b) = entry(file, b)
                   /\ session(sessions', b) = session(sessions, b)
             /\ response' # response =>
                   /\ \A i \in 1..Len(response'.connections) :
                         \E j \in 1..Len(owned(file', a)) :
                            /\ owned(file', a)[j].key = response'.connections[i].id
                            /\ [owned(file', a)[j].val EXCEPT !.password = Masked]
                                  = response'.connections[i].conn
                   /\ \/ response'.currentConnection = NoConnection
                      \/ \E j \in 1..Len(owned(file', a)) :
                            response'.currentConnection \in
                               {owned(file', a)[j].val,
                                [owned(file', a)[j].val EXCEPT !.password = Masked]}]_vars

\* C29: in every reachable store state and for every user, the pointer
\* currentConnection is null or the id of a connection stored for that user,
\* and a stored connection has isActive true exactly when the pointer is its
\* id, so get_current_connection returns the connection whose flag is true
C29_PointerMatchesFlags ==
    impl = "backend_services" =>
        \A i \in 1..Len(config.users) :
           LET user == config.users[i].val
               conns == user.connections
           IN /\ user.currentConnection = None
                 \/ DictHas(conns, user.currentConnection)
              /\ \A j \in 1..Len(conns) :
                    conns[j].val.isActive <=> (user.currentConnection = conns[j].key)
              /\ \A j \in 1..Len(conns) :
                    conns[j].val.isActive =>
                       BS_get_current_connection(config, config.users[i].key) = conns[j].val

\* C30: a successful add_connection whose dedup key matches none of the
\* user's stored connections adds exactly one connection and leaves the
\* credentials and the schema of every connection stored before as they
\* were, also when the proposed id is the id of a stored connection
C30_NewKeyAddsOne ==
    LET kept(c) == <<c.host, c.port, c.database, c.username, c.password, c.schema>>
        added(old, new) ==
            /\ Len(new) = Len(old) + 1
            /\ \A i \in 1..Len(old) :
                  /\ DictHas(new, old[i].key)
                  /\ kept(DictGet(new, old[i].key)) = kept(old[i].val)
        fresh(old, p) == \A i \in 1..Len(old) : DedupKey(old[i].val) # DedupKey(p)
    IN \A u \in Users, cid \in ConnIds, p \in Params :
          /\ (impl = "backend_services" /\ fresh(BS_Connections(config, u), p)) =>
                \E r \in {BS_add_connection(config, u, cid, p, TRUE, SchemaOf(p))} :
                   r.result.success =>
                      added(BS_Connections(config, u), BS_Connections(r.config, u))
          /\ (impl = "src_services" /\ fresh(SV_Connections(file, u), p)) =>
                \E r \in {SV_add_connection(file, u, cid, p, TRUE, SchemaOf(p))} :
                   r.result.success =>
                      added(SV_Connections(file, u), SV_Connections(r.file, u))

============================================================================
